---- MODULE Spec2Model ----
(***************************************************************************)
(* A model of advent-of-code-data (aocd): the per-puzzle cache files, the  *)
(* submission log and the Puzzle operations that read and write them.      *)
(*                                                                         *)
(* Text is modelled as a tuple of one-character strings, so that int(),    *)
(* str.strip() and str.rstrip() are computed character by character.       *)
(* A server message is a tuple of phrases; startswith is "first phrase"    *)
(* and the substring test is "some phrase".                                *)
(* A file is <<>> when it does not exist and <<content>> when it does.     *)
(***************************************************************************)
EXTENDS Integers, Sequences, FiniteSets, TLC

VARIABLES
    day,          \* Puzzle.day
    answerFile,   \* part -> answer_a_path / answer_b_path
    proseFiles,   \* prose place -> file: prose0_path, prose1_path, prose2_path
                  \* and the prose.1 and prose.2 files of other users
    submitLog,    \* submit_results_path: the list of submission records
    call,         \* the Puzzle operation in progress and its position
    inputFile,    \* input_data_path
    icall,        \* the input_data call in progress
    lastData,     \* what the previous input_data call returned
    fs,           \* file name -> file, in the directory atomic_write_file writes to
    parentDir,    \* whether that directory exists
    wpc,          \* writer -> its position inside atomic_write_file
    wdata,        \* writer -> its contents_str
    wrote,        \* the contents of the atomic_write_file calls that have returned
    seen,         \* what the last read of the path returned
    clock,        \* time.time(), in hundredths of a second
    http,         \* the HttpClient: _max_t, _cooloff, _history, req_count
    memo,         \* post.py: the answer and bad-answers files of a puzzle
    pcall,        \* post.py: the submit call in progress
    run,          \* runner.run_for: the run in progress and its position
    token2idFile, \* AOCD_CONFIG_DIR / "token2id.json"
    procs,        \* process -> its User._token2id and its User.id call
    titleCache,   \* the cached_property Puzzle.title of the puzzle object
    cv            \* the Puzzle._coerce_val call: its argument, its result, its log

vars == <<day, answerFile, proseFiles, submitLog, call,
          inputFile, icall, lastData,
          fs, parentDir, wpc, wdata, wrote, seen,
          clock, http,
          memo, pcall,
          run,
          token2idFile, procs,
          titleCache, cv>>

submitVars == <<day, answerFile, proseFiles, submitLog, call>>
inputVars == <<inputFile, icall, lastData>>
atomicVars == <<fs, parentDir, wpc, wdata, wrote, seen>>
httpVars == <<clock, http>>
postVars == <<memo, pcall>>
runVars == <<run>>
userVars == <<token2idFile, procs>>
proseVars == <<titleCache>>
coerceVars == <<cv>>

\* what the operations of one group leave alone
notSubmit == <<coerceVars, proseVars, userVars, inputVars, atomicVars, httpVars, postVars, runVars>>
notInput == <<coerceVars, proseVars, userVars, submitVars, atomicVars, httpVars, postVars, runVars>>
notAtomic == <<coerceVars, proseVars, userVars, submitVars, inputVars, httpVars, postVars, runVars>>
notHttp == <<coerceVars, proseVars, userVars, submitVars, inputVars, atomicVars, postVars, runVars>>
notPost == <<coerceVars, proseVars, userVars, submitVars, inputVars, atomicVars, httpVars, runVars>>
notRun == <<coerceVars, proseVars, inputVars, atomicVars, httpVars, postVars, userVars>>
notUser == <<coerceVars, proseVars, submitVars, inputVars, atomicVars, httpVars, postVars, runVars>>
notProse == <<coerceVars, userVars, inputVars, atomicVars, httpVars, postVars, runVars>>
notCoerce == <<proseVars, userVars, submitVars, inputVars, atomicVars, httpVars, postVars, runVars>>

----------------------------------------------------------------------------
(* Bounds *)

MaxLog == 1       \* records the submission log can hold
MaxBody == 2      \* characters in a puzzle input
NWriters == 2     \* concurrent callers of atomic_write_file
MaxRetryLog == 2  \* records the log can hold under SpecRetry and SpecSolve
MaxClock == 1400  \* the latest clock reading, in hundredths of a second
MaxPosts == 2     \* POSTs one call of post.submit makes
MaxLookups == 2   \* get_owner requests of one process for one token

----------------------------------------------------------------------------
(* Text *)

NoFile == <<>>
File(txt) == <<txt>>
IsFile(f) == f # NoFile
ReadText(f) == f[1]

Digits == {"0", "1", "2", "3", "4", "5", "6", "7", "8", "9"}
Whitespace == {" ", "\n", "\r"}

DigitVal(c) ==
    CASE c = "0" -> 0 [] c = "1" -> 1 [] c = "2" -> 2 [] c = "3" -> 3
      [] c = "4" -> 4 [] c = "5" -> 5 [] c = "6" -> 6 [] c = "7" -> 7
      [] c = "8" -> 8 [] c = "9" -> 9

RECURSIVE LStrip(_)
LStrip(s) ==
    IF s # <<>> /\ Head(s) \in Whitespace THEN LStrip(Tail(s)) ELSE s

RECURSIVE RStripChars(_, _)
RStripChars(s, chars) ==
    IF s # <<>> /\ s[Len(s)] \in chars
    THEN RStripChars(SubSeq(s, 1, Len(s) - 1), chars)
    ELSE s

\* str.strip()
Strip(s) == RStripChars(LStrip(s), Whitespace)

\* str.rstrip("\r\n")
RStripNewlines(s) == RStripChars(s, {"\r", "\n"})

RECURSIVE DecimalValue(_)
DecimalValue(s) ==
    IF s = <<>> THEN 0
    ELSE 10 * DecimalValue(SubSeq(s, 1, Len(s) - 1)) + DigitVal(s[Len(s)])

\* int(s) succeeds: surrounding whitespace is ignored, the rest is digits
IsInt(s) ==
    LET t == Strip(s) IN t # <<>> /\ \A i \in 1..Len(t) : t[i] \in Digits

\* int(s), where it succeeds
ToInt(s) == DecimalValue(Strip(s))

----------------------------------------------------------------------------
(* Python values given as answers *)

PyStr(s) == [t |-> "str", s |-> s, n |-> 0]
PyBytes(s) == [t |-> "bytes", s |-> s, n |-> 0]
PyInt(n) == [t |-> "int", s |-> <<>>, n |-> n]
PyNone == [t |-> "NoneType", s |-> <<>>, n |-> 0]

NoneText == <<"N", "o", "n", "e">>
DoneText == <<"d", "o", "n", "e">>

RECURSIVE IntToStr(_)
IntToStr(n) ==
    LET d == <<"0", "1", "2", "3", "4", "5", "6", "7", "8", "9">>[(n % 10) + 1]
    IN IF n < 10 THEN <<d>> ELSE IntToStr(n \div 10) \o <<d>>

\* a float, a complex or a numpy scalar: its type (the name as text, the
\* module, the builtin types it is an instance of, whether it holds an
\* integer, a real or a complex number) and its real and imaginary part, both
\* in halves
PyNumber(type, re2, im2) ==
    [t |-> type.t, s |-> <<>>, n |-> 0, name |-> type.name,
     module |-> type.module, bases |-> type.bases, kind |-> type.kind,
     re2 |-> re2, im2 |-> im2]

PyType(t, name, module, bases, kind) ==
    [t |-> t, name |-> name, module |-> module, bases |-> bases, kind |-> kind]

\* isinstance(val, types)
isinstance(val, types) ==
    IF "bases" \in DOMAIN val THEN val.bases \cap types # {} ELSE val.t \in types

\* type(val).__module__
TypeModule(val) == IF "module" \in DOMAIN val THEN val.module ELSE "builtins"

\* str.startswith(prefixes)
startswith(name, prefixes) ==
    \E p \in prefixes : Len(name) >= Len(p) /\ SubSeq(name, 1, Len(p)) = p

\* _coerce_val line 302
IntPrefixes == {<<"i", "n", "t">>, <<"u", "i", "n", "t">>, <<"l", "o", "n", "g">>, <<"u", "l", "o", "n", "g">>}

\* _coerce_val line 305
FloatPrefixes == {<<"f", "l", "o", "a", "t">>, <<"c", "o", "m", "p", "l", "e", "x">>}

\* float.is_integer()
is_integer(re2) == re2 % 2 = 0

\* int(x), of a number that is not negative
int(re2) == re2 \div 2

\* Puzzle._coerce_val: the value it returns and the warnings it logs
coerce(val) ==
    LET floatish == isinstance(val, {"float", "complex"})
        c == IF floatish /\ val.im2 = 0 /\ is_integer(val.re2)
             THEN [coerced |-> TRUE, val |-> PyInt(int(val.re2))]
             ELSE IF TypeModule(val) = "numpy"
             THEN IF startswith(val.name, IntPrefixes)
                  THEN [coerced |-> TRUE, val |-> PyInt(int(val.re2))]
                  ELSE IF /\ startswith(val.name, FloatPrefixes)
                          /\ val.im2 = 0
                          /\ is_integer(val.re2)
                  THEN [coerced |-> TRUE, val |-> PyInt(int(val.re2))]
                  ELSE [coerced |-> FALSE, val |-> val]
             ELSE [coerced |-> FALSE, val |-> val]
    IN [val |-> IF isinstance(c.val, {"int"}) THEN PyStr(IntToStr(c.val.n))
                ELSE c.val,
        warnings |-> IF c.coerced THEN 1 ELSE 0]

\* Puzzle._coerce_val: the value it returns
_coerce_val(val) == coerce(val).val

\* a null check that forgets the text "None"
IsNonAnswerButNoneText(val) ==
    val \in {PyStr(<<>>), PyBytes(<<>>), PyNone, PyBytes(NoneText)}

\* _submit line 432: value in {"", b"", None, b"None", "None"}
IsNonAnswer(val) ==
    val \in {PyStr(<<>>), PyBytes(<<>>), PyNone, PyBytes(NoneText), PyStr(NoneText)}

\* str(part).replace("1", "a").replace("2", "b").lower()
NormPart(part) ==
    CASE part = "1" -> "a"
      [] part = "2" -> "b"
      [] part = "A" -> "a"
      [] part = "B" -> "b"
      [] OTHER -> part

Parts == {"a", "b"}

----------------------------------------------------------------------------
(* Server messages *)

RIGHT == "That's the right answer"
NOTRIGHT == "That's not the right answer"
TOOHIGH == "your answer is too high"
TOOLOW == "your answer is too low"
RECENT == "You gave an answer too recently"
YOUHAVE == "You have "
MINUTES == "m "
LEFTTOWAIT == "s left to wait"
LEVEL == "You don't seem to be solving the right level"
DIDYOU == "Did you already complete it"
UNKNOWN == "yeah"

StartsWith(message, phrase) == message # <<>> /\ message[1] = phrase
Contains(message, phrase) == \E i \in 1..Len(message) : message[i] = phrase

\* a history loop that skips the wrong-level records only
skip_prefix_level_only == {LEVEL}

\* _submit lines 444-447
skip_prefix == {RECENT, LEVEL}

\* the digits of message from position i on, up to the first other phrase
RECURSIVE DigitRun(_, _)
DigitRun(message, i) ==
    IF i <= Len(message) /\ message[i] \in Digits
    THEN <<message[i]>> \o DigitRun(message, i + 1)
    ELSE <<>>

\* the match of r"You have (?:(\d+)m )?(\d+)s left to wait" that starts at
\* position i of message: <<>>, or the one pair <<minutes, seconds>>, minutes
\* empty when the optional group has not matched
WaitMatchAt(message, i) ==
    IF message[i] # YOUHAVE THEN <<>>
    ELSE LET d1 == DigitRun(message, i + 1)
             j == i + 1 + Len(d1)
         IN IF d1 = <<>> \/ j > Len(message) THEN <<>>
            ELSE IF message[j] = LEFTTOWAIT THEN << <<(<<>>), d1>> >>
            ELSE IF message[j] = MINUTES
            THEN LET d2 == DigitRun(message, j + 1)
                     k == j + 1 + Len(d2)
                 IN IF d2 # <<>> /\ k <= Len(message) /\ message[k] = LEFTTOWAIT
                    THEN << <<d1, d2>> >>
                    ELSE <<>>
            ELSE <<>>

\* re.findall(wait_pattern, message), from position i on
RECURSIVE FindWaits(_, _)
FindWaits(message, i) ==
    IF i > Len(message) THEN <<>>
    ELSE WaitMatchAt(message, i) \o FindWaits(message, i + 1)

\* a wait that counts the seconds only
wait_time_seconds_only(minutes, seconds) == ToInt(seconds)

\* _submit lines 570-572
wait_time(minutes, seconds) ==
    IF minutes # <<>> THEN ToInt(seconds) + 60 * ToInt(minutes)
    ELSE ToInt(seconds)

MsgRight == <<RIGHT>>
MsgHigh == <<NOTRIGHT, TOOHIGH>>
MsgLow == <<NOTRIGHT, TOOLOW>>
MsgWrong == <<NOTRIGHT>>
MsgRecentWait == <<RECENT, YOUHAVE, "3", "0", LEFTTOWAIT>>
MsgWait2m5s == <<RECENT, YOUHAVE, "2", MINUTES, "5", LEFTTOWAIT>>
MsgWait0m7s == <<RECENT, YOUHAVE, "0", MINUTES, "7", LEFTTOWAIT>>
MsgWaitTwice ==
    <<RECENT, YOUHAVE, "4", LEFTTOWAIT, YOUHAVE, "1", MINUTES, "4", LEFTTOWAIT>>
MsgRecent == <<RECENT>>
MsgLevel == <<LEVEL, DIDYOU>>
MsgUnknown == <<UNKNOWN>>

----------------------------------------------------------------------------
(* The submission log *)

\* a _save_submit_result that writes the new record alone
_save_submit_result_alone(log, value, part, message) ==
    <<[part |-> part, value |-> value, message |-> message]>>

\* Puzzle._save_submit_result
_save_submit_result(log, value, part, message) ==
    Append(log, [part |-> part, value |-> value, message |-> message])

\* a history loop that never replays the message of an identical guess
RecordVerdictNoReplay(result, value, part) ==
    IF result.part # part
          \/ \E pre \in skip_prefix : StartsWith(result.message, pre)
    THEN "continue"
    ELSE IF StartsWith(result.message, RIGHT) /\ value # result.value
    THEN "certain_right"
    ELSE "continue"

\* a history loop that does not look for a right answer in the log
RecordVerdictNoRight(result, value, part) ==
    IF result.part # part
          \/ \E pre \in skip_prefix : StartsWith(result.message, pre)
    THEN "continue"
    ELSE IF result.value # value
    THEN "continue"
    ELSE "again"

\* a history loop that takes the records of both parts
RecordVerdictAnyPart(result, value, part) ==
    IF \E pre \in skip_prefix : StartsWith(result.message, pre)
    THEN "continue"
    ELSE IF StartsWith(result.message, RIGHT) /\ value # result.value
    THEN "certain_right"
    ELSE IF ~StartsWith(result.message, RIGHT)
              /\ Contains(result.message, TOOHIGH)
              /\ IsInt(value) /\ ~IsInt(result.value)
    THEN "ValueError"
    ELSE IF ~StartsWith(result.message, RIGHT)
              /\ Contains(result.message, TOOHIGH)
              /\ (~IsInt(value) \/ ToInt(value) > ToInt(result.value))
    THEN "certain_high"
    ELSE IF ~StartsWith(result.message, RIGHT)
              /\ ~Contains(result.message, TOOHIGH)
              /\ Contains(result.message, TOOLOW)
              /\ IsInt(value) /\ ~IsInt(result.value)
    THEN "ValueError"
    ELSE IF ~StartsWith(result.message, RIGHT)
              /\ ~Contains(result.message, TOOHIGH)
              /\ Contains(result.message, TOOLOW)
              /\ (~IsInt(value) \/ ToInt(value) < ToInt(result.value))
    THEN "certain_low"
    ELSE IF result.value # value
    THEN "continue"
    ELSE "again"

\* one pass of the loop of _submit over previous_submits: what the record
\* result decides for the guess value of part
RecordVerdict(result, value, part) ==
    IF result.part # part
          \/ \E pre \in skip_prefix : StartsWith(result.message, pre)
    THEN "continue"
    ELSE IF StartsWith(result.message, RIGHT) /\ value # result.value
    THEN "certain_right"
    ELSE IF ~StartsWith(result.message, RIGHT)
              /\ Contains(result.message, TOOHIGH)
              /\ IsInt(value) /\ ~IsInt(result.value)
    THEN "ValueError"
    ELSE IF ~StartsWith(result.message, RIGHT)
              /\ Contains(result.message, TOOHIGH)
              /\ (~IsInt(value) \/ ToInt(value) > ToInt(result.value))
    THEN "certain_high"
    ELSE IF ~StartsWith(result.message, RIGHT)
              /\ ~Contains(result.message, TOOHIGH)
              /\ Contains(result.message, TOOLOW)
              /\ IsInt(value) /\ ~IsInt(result.value)
    THEN "ValueError"
    ELSE IF ~StartsWith(result.message, RIGHT)
              /\ ~Contains(result.message, TOOHIGH)
              /\ Contains(result.message, TOOLOW)
              /\ (~IsInt(value) \/ ToInt(value) < ToInt(result.value))
    THEN "certain_low"
    ELSE IF result.value # value
    THEN "continue"
    ELSE "again"

Verdict(kind, i) == [kind |-> kind, idx |-> i]

\* the loop of _submit over previous_submits, from record i on: the first
\* record that ends _submit, or "pass" when the loop runs to its end
RECURSIVE HistoryCheck(_, _, _, _)
HistoryCheck(log, i, value, part) ==
    IF i > Len(log) THEN Verdict("pass", 0)
    ELSE LET v == RecordVerdict(log[i], value, part) IN
         IF v = "continue" THEN HistoryCheck(log, i + 1, value, part)
         ELSE Verdict(v, i)

----------------------------------------------------------------------------
(* Answer files and the puzzle page *)

\* a _save_correct_answer that writes the value as it was submitted
_save_correct_answer_unstripped(af, value, part) ==
    IF IsFile(af[part]) /\ ReadText(af[part]) = value
    THEN af
    ELSE [af EXCEPT ![part] = File(value)]

\* Puzzle._save_correct_answer
_save_correct_answer(af, value, part) ==
    LET txt == Strip(value) IN
    IF IsFile(af[part]) /\ ReadText(af[part]) = txt
    THEN af
    ELSE [af EXCEPT ![part] = File(txt)]

\* a scrape that takes two answers from a complete page on any day
ScrapeAnswersEveryDay(af, page) ==
    IF page.kind = "both"
    THEN _save_correct_answer(_save_correct_answer(af, page.pa, "a"), page.pb, "b")
    ELSE IF page.kind = "first"
    THEN _save_correct_answer(af, page.pa, "a")
    ELSE af

\* a scrape that drops the answer files when the page shows no answer
ScrapeAnswersForgetful(af, page) ==
    IF page.kind = "both"
    THEN IF day = 25
         THEN _save_correct_answer(af, page.pa, "a")
         ELSE _save_correct_answer(_save_correct_answer(af, page.pa, "a"), page.pb, "b")
    ELSE IF page.kind = "first"
    THEN _save_correct_answer(af, page.pa, "a")
    ELSE [p \in DOMAIN af |-> NoFile]

\* the answer-file part of Puzzle._request_puzzle_page, on a 200 response
ScrapeAnswers(af, page) ==
    IF page.kind = "both"
    THEN IF day = 25
         THEN _save_correct_answer(af, page.pa, "a")
         ELSE _save_correct_answer(_save_correct_answer(af, page.pa, "a"), page.pb, "b")
    ELSE IF page.kind = "first"
    THEN _save_correct_answer(af, page.pa, "a")
    ELSE af

\* the places _get_prose looks for prose in: the three paths of the puzzle
\* and the first prose.2 and prose.1 file of any other user
ProsePlaces == {"prose2", "other2", "prose1", "other1", "prose0"}

NoProse == [place \in ProsePlaces |-> NoFile]

\* what of a page's html the title and the example parser look at, where the
\* page does not say
PlainHtml == [title |-> TRUE, articles |-> 2, h2 |-> "ok"]

\* the text of a page, as far as the readers of the prose tell texts apart
PageText(page) ==
    [kind |-> page.kind,
     html |-> IF "html" \in DOMAIN page THEN page.html ELSE PlainHtml]

\* if not path.is_file(): path.write_text(text)
WriteIfMissing(pf, place, text) ==
    IF IsFile(pf[place]) THEN pf ELSE [pf EXCEPT ![place] = File(text)]

\* the prose-file part of Puzzle._request_puzzle_page, on a 200 response
ScrapeProse(pf, page) ==
    IF page.kind = "both" THEN WriteIfMissing(pf, "prose2", PageText(page))
    ELSE IF page.kind = "first" THEN WriteIfMissing(pf, "prose1", PageText(page))
    ELSE IF page.advent THEN WriteIfMissing(pf, "prose0", PageText(page))
    ELSE pf

----------------------------------------------------------------------------
(* The Puzzle operation in progress *)

IdleCall ==
    [op |-> "none", value |-> PyNone, part |-> "a", pc |-> "idle",
     ret |-> "none", out |-> "none", inner |-> "none", idx |-> 0,
     posts |-> 0, gets |-> 0, sleeps |-> 0, wait |-> 0, slept |-> 0,
     stars |-> 0, status |-> 0, nested |-> FALSE,
     page |-> [status |-> 0, kind |-> "none", pa |-> <<>>, pb |-> <<>>,
               advent |-> FALSE],
     changed |-> {}, overwrote |-> {}, result |-> <<>>,
     served |-> "none", err |-> "none", warned |-> FALSE]

\* the value and part of the _submit frame that is running: the day 25
\* automatic submission runs _submit(value="done", part="b") inside _submit
CurValue(c) == IF c.nested THEN PyStr(DoneText) ELSE c.value
CurPart(c) == IF c.nested THEN "b" ELSE c.part

Raises ==
    {"raise_non_answer", "raise_bad_part", "raise_part_a_answer", "raise_http",
     "raise_dead_token", "ValueError"}

\* the running frame returns or raises out; a nested frame hands a raise to the
\* outer _submit, which otherwise goes on to return the response of its POST
Finish(c, out) ==
    IF c.nested
    THEN [c EXCEPT !.pc = "done", !.inner = out,
                   !.out = IF out \in Raises THEN out ELSE "posted"]
    ELSE [c EXCEPT !.pc = "done", !.out = out]

\* http.get(self.url) of _request_puzzle_page is sent
RequestPage(c, ret) == [c EXCEPT !.pc = "page", !.ret = ret, !.gets = @ + 1]

\* _submit line 522: the level of a part
level(part) == IF part = "a" THEN "1" ELSE "2"

\* http.post(url, fields) of _submit is sent
DoPost(c) == [c EXCEPT !.pc = "post", !.posts = @ + 1]

\* a _get_answer that treats day 25 like any other day
CachedAnswerEveryDay(af, part) ==
    IF IsFile(af[part]) THEN <<Strip(ReadText(af[part]))>>
    ELSE <<>>

\* what _get_answer(part) returns from the cache alone: <<answer>>, or <<>> when
\* the answer file is missing
CachedAnswer(af, part) ==
    IF part = "b" /\ day = 25 THEN <<<<>>>>
    ELSE IF IsFile(af[part]) THEN <<Strip(ReadText(af[part]))>>
    ELSE <<>>

\* a check that lets a guess differing from the cached answer through
AfterCheckPostsDifferent(c, af) ==
    LET answer == CachedAnswer(af, CurPart(c)) IN
    IF answer = <<>> \/ answer[1] = <<>> THEN DoPost(c)
    ELSE IF answer[1] = CurValue(c).s THEN Finish(c, "solved_same")
    ELSE DoPost(c)

\* a check that lets a guess equal to the cached answer through
AfterCheckPostsSame(c, af) ==
    LET answer == CachedAnswer(af, CurPart(c)) IN
    IF answer = <<>> \/ answer[1] = <<>> THEN DoPost(c)
    ELSE IF answer[1] = CurValue(c).s THEN DoPost(c)
    ELSE Finish(c, "solved_different")

\* a check that lets every guess through
AfterCheckPostsAny(c, af) == DoPost(c)

\* Puzzle._check_already_solved once _get_answer has returned or raised
AfterCheck(c, af) ==
    LET answer == CachedAnswer(af, CurPart(c)) IN
    IF answer = <<>> \/ answer[1] = <<>> THEN DoPost(c)
    ELSE IF answer[1] = CurValue(c).s THEN Finish(c, "solved_same")
    ELSE Finish(c, "solved_different")

\* Puzzle._check_already_solved up to the page request of _get_answer
CheckSolved(c, af) ==
    IF CachedAnswer(af, CurPart(c)) = <<>>
    THEN RequestPage(c, "check")
    ELSE AfterCheck(c, af)

\* a _submit without the comparison with part a's answer
AfterPartANoCompare(c, af) == CheckSolved(c, af)

\* _submit line 507, once getattr(self, "answer_a", None) has its value
AfterPartA(c, af) ==
    LET answer_a == CachedAnswer(af, "a") IN
    IF answer_a # <<>> /\ CurValue(c).s = answer_a[1]
    THEN Finish(c, "raise_part_a_answer")
    ELSE CheckSolved(c, af)

\* _submit after the loop over previous_submits
AfterHistory(c, af) ==
    IF CurPart(c) = "b"
    THEN IF CachedAnswer(af, "a") = <<>>
         THEN RequestPage(c, "partb")
         ELSE AfterPartA(c, af)
    ELSE CheckSolved(c, af)

\* Puzzle._submit from its first line to its first request, return or raise;
\* c.value and c.part are as passed in
SubmitBody(c, af, log) ==
    IF IsNonAnswer(CurValue(c)) THEN Finish(c, "raise_non_answer")
    ELSE IF NormPart(CurPart(c)) \notin Parts THEN Finish(c, "raise_bad_part")
    ELSE LET c1 == IF c.nested THEN c
                   ELSE [c EXCEPT !.value = _coerce_val(c.value),
                                  !.part = NormPart(c.part)]
             h == HistoryCheck(log, 1, CurValue(c1).s, CurPart(c1))
         IN IF h.kind # "pass"
            THEN Finish([c1 EXCEPT !.idx = h.idx], h.kind)
            ELSE AfterHistory(c1, af)

\* the answer_a / answer_b setter once getattr(self, "answer_x", None) has its value
SetterCompare(c, af, log) ==
    LET answer == CachedAnswer(af, c.part) IN
    IF answer # <<>> /\ c.value = PyStr(answer[1])
    THEN Finish(c, "setter_same")
    ELSE SubmitBody(c, af, log)

\* a getter that returns the empty text where the answer is missing
GetFinishNeverUnsolved(c, af) ==
    LET answer == CachedAnswer(af, c.part) IN
    IF answer = <<>> THEN Finish([c EXCEPT !.result = <<>>], "answer")
    ELSE Finish([c EXCEPT !.result = answer[1]], "answer")

\* the answer_a / answer_b getter once _get_answer has returned or raised
GetFinish(c, af) ==
    LET answer == CachedAnswer(af, c.part) IN
    IF answer = <<>> THEN Finish(c, "AttributeError")
    ELSE Finish([c EXCEPT !.result = answer[1]], "answer")

\* the answer files that differ between the cache and af, and those of them
\* that held an answer before (_save_correct_answer's "overwriting")
ChangedParts(af) == {p \in Parts : af[p] # answerFile[p]}
OverwrittenParts(af) == {p \in ChangedParts(af) : IsFile(answerFile[p])}

\* c, with the files this step has changed noted
Noting(c, af, log) ==
    [c EXCEPT !.changed = @ \cup ChangedParts(af)
                            \cup (IF log # submitLog THEN {"log"} ELSE {}),
              !.overwrote = @ \cup OverwrittenParts(af)]

----------------------------------------------------------------------------
(* Inputs of the submission machine *)

Days == {1, 25}

Guesses == {PyStr(<<"1">>), PyStr(<<"2">>), PyStr(<<"0", "1">>), PyStr(<<"x">>)}

NonAnswers == {PyNone, PyStr(<<>>), PyBytes(<<>>), PyStr(NoneText), PyBytes(NoneText)}

PartInputs == {"a", "b", "2", "c"}

\* _submit is called with a guess and any part, or with a non-answer
SubmitInputs == (Guesses \X PartInputs) \cup (NonAnswers \X {"a"})

SetterValues == Guesses \cup {PyNone, PyStr(<<>>)}

PageAnswers == {<<"1">>, <<"2">>}

Page(status, kind, pa, pb, advent) ==
    [status |-> status, kind |-> kind, pa |-> pa, pb |-> pb, advent |-> advent]

\* the responses to GET <puzzle url>: an error, a page of the site with no
\* answer on it, a page with part a's answer, a page with both answers
Pages ==
    {Page(500, "none", <<>>, <<>>, FALSE)}
    \cup {Page(200, "none", <<>>, <<>>, TRUE)}
    \cup {Page(200, "first", pa, <<>>, TRUE) : pa \in PageAnswers}
    \cup {Page(200, "both", pa, pb, TRUE) : pa \in PageAnswers, pb \in PageAnswers}

Messages ==
    {MsgRight, MsgHigh, MsgLow, MsgWrong, MsgRecentWait, MsgLevel}

PostStatuses == {200, 302, 500}
StatsStatuses == {200, 302, 500}
\* the personal stats of the year, as get_stats returns them: how many days
\* have an entry, and how many of these have an entry for part b too
MyStats ==
    {[days |-> 25, both |-> 23], [days |-> 25, both |-> 24],
     [days |-> 25, both |-> 25]}

\* _submit line 546: sum(len(val) for val in my_stats.values())
n_stars(my_stats) == my_stats.days + my_stats.both

\* an automatic submission for whoever has 49 stars or more
GotStarsAtLeast(n) == n >= 49

\* _submit line 547
GotStars(n) == n = 49

----------------------------------------------------------------------------
(* Actions of the submission machine *)

\* Puzzle._submit(value, part) is called, with one of inputs
SubmitCallOf(inputs) ==
    /\ call.pc = "idle"
    /\ \E inp \in inputs :
         call' = SubmitBody([IdleCall EXCEPT !.op = "submit", !.value = inp[1],
                                             !.part = inp[2]],
                            answerFile, submitLog)
    /\ UNCHANGED <<day, answerFile, proseFiles, submitLog>>
    /\ UNCHANGED notSubmit

SubmitCall == SubmitCallOf(SubmitInputs)

\* puzzle.answer_a = val / puzzle.answer_b = val
SetterCall ==
    /\ call.pc = "idle"
    /\ \E v \in SetterValues, p \in Parts :
         LET c == [IdleCall EXCEPT !.op = "setter", !.value = _coerce_val(v), !.part = p]
         IN call' = IF CachedAnswer(answerFile, p) = <<>>
                    THEN RequestPage(c, "setter")
                    ELSE SetterCompare(c, answerFile, submitLog)
    /\ UNCHANGED <<day, answerFile, proseFiles, submitLog>>
    /\ UNCHANGED notSubmit

\* the answer_a / answer_b getter up to the page request of _get_answer
Getter(p, af) ==
    LET c == [IdleCall EXCEPT !.op = "get", !.part = p]
    IN IF CachedAnswer(af, p) = <<>>
       THEN RequestPage(c, "get")
       ELSE GetFinish(c, af)

\* puzzle.answer_a / puzzle.answer_b is read
GetAnswerCall ==
    /\ call.pc = "idle"
    /\ \E p \in Parts :
         call' = Getter(p, answerFile)
    /\ UNCHANGED <<day, answerFile, proseFiles, submitLog>>
    /\ UNCHANGED notSubmit

\* the response to the GET of _request_puzzle_page arrives: the rest of
\* _request_puzzle_page and of its caller up to the next request; the
\* response is kept (self._last_resp) where keeps says so
PageResponseOf(keeps) ==
    /\ call.pc = "page"
    /\ call.ret \in {"setter", "partb", "check", "get"}
    /\ \E page \in Pages :
         IF page.status # 200
         THEN /\ call' = Finish(call, "raise_http")
              /\ UNCHANGED <<answerFile, proseFiles>>
         ELSE LET af == ScrapeAnswers(answerFile, page)
                  c0 == IF keeps THEN [call EXCEPT !.page = page] ELSE call
                  c == Noting(c0, af, submitLog)
              IN /\ answerFile' = af
                 /\ proseFiles' = ScrapeProse(proseFiles, page)
                 /\ call' = CASE call.ret = "setter" -> SetterCompare(c, af, submitLog)
                              [] call.ret = "partb" -> AfterPartA(c, af)
                              [] call.ret = "check" -> AfterCheck(c, af)
                              [] call.ret = "get" -> GetFinish(c, af)
    /\ UNCHANGED <<day, submitLog>>
    /\ UNCHANGED notSubmit

PageResponse == PageResponseOf(FALSE)

\* a _submit that raises for the error statuses only
PostFailedFrom400(status) == status >= 400

\* _submit line 526
PostFailed(status) == status # 200

\* the response to the POST of _submit arrives: the rest of _submit up to the
\* next request or sleep.  The server answers with one of messages; the log
\* is full at maxLog records: the server then answers with an error status.
\* A too high / too low hint is given to a number only.
PostResponseOf(messages, maxLog) ==
    /\ call.pc = "post"
    /\ \E status \in PostStatuses, message \in messages :
         LET value == CurValue(call).s
             part == CurPart(call)
         IN
         /\ status = 200 => Len(submitLog) < maxLog
         /\ (Contains(message, TOOHIGH) \/ Contains(message, TOOLOW)) => IsInt(value)
         /\ IF PostFailed(status)
            THEN /\ call' = Finish([call EXCEPT !.status = status], "raise_http")
                 /\ UNCHANGED <<answerFile, submitLog>>
            ELSE LET log == _save_submit_result(submitLog, value, part, message)
                     af == IF Contains(message, RIGHT) /\ ~(day = 25 /\ part = "b")
                           THEN _save_correct_answer(answerFile, value, part)
                           ELSE answerFile
                     c == Noting([call EXCEPT !.status = status], af, log)
                 IN /\ submitLog' = log
                    /\ answerFile' = af
                    /\ call' =
                         IF Contains(message, RIGHT)
                         THEN IF day = 25 /\ part = "a"
                              THEN [c EXCEPT !.pc = "stats"]
                              ELSE Finish(c, "posted")
                         ELSE IF Contains(message, DIDYOU) THEN Finish(c, "posted")
                         ELSE IF Contains(message, NOTRIGHT) THEN Finish(c, "posted")
                         ELSE IF Contains(message, RECENT)
                                   /\ Len(FindWaits(message, 1)) = 1
                         THEN LET found == FindWaits(message, 1)[1] IN
                              [c EXCEPT !.pc = "sleep",
                                        !.wait = wait_time(found[1], found[2])]
                         ELSE Finish(c, "posted")
    /\ UNCHANGED <<day, proseFiles>>
    /\ UNCHANGED notSubmit

PostResponse == PostResponseOf(Messages, MaxLog)

\* time.sleep(wait_time) returns: _submit calls itself with the same value and
\* part, up to its first request, return or raise
Sleep ==
    /\ call.pc = "sleep"
    /\ call' = SubmitBody([call EXCEPT !.sleeps = @ + 1, !.slept = @ + call.wait],
                          answerFile, submitLog)
    /\ UNCHANGED <<day, answerFile, proseFiles, submitLog>>
    /\ UNCHANGED notSubmit

\* the response to the GET of User.get_stats arrives (day 25, part a just solved)
StatsResponse ==
    /\ call.pc = "stats"
    /\ \E status \in StatsStatuses, my_stats \in MyStats :
         call' = IF status >= 300 /\ status < 400 THEN Finish(call, "raise_dead_token")
                 ELSE IF status >= 400 THEN Finish(call, "raise_http")
                 ELSE LET c == [call EXCEPT !.stars = n_stars(my_stats)] IN
                      IF GotStars(n_stars(my_stats))
                      THEN SubmitBody([c EXCEPT !.nested = TRUE], answerFile, submitLog)
                      ELSE Finish(c, "posted")
    /\ UNCHANGED <<day, answerFile, proseFiles, submitLog>>
    /\ UNCHANGED notSubmit

\* the operation has returned or raised; the caller goes on
Return ==
    /\ call.pc = "done"
    /\ call' = IdleCall
    /\ UNCHANGED <<day, answerFile, proseFiles, submitLog>>
    /\ UNCHANGED notSubmit

----------------------------------------------------------------------------

(* Puzzle.input_data *)

\* the texts over chars of at most n characters
RECURSIVE TextsUpTo(_, _)
TextsUpTo(chars, n) ==
    IF n = 0 THEN {<<>>}
    ELSE LET shorter == TextsUpTo(chars, n - 1)
         IN shorter \cup {Append(t, ch) : t \in shorter, ch \in chars}

Bodies == TextsUpTo({"7", "8", "\n", "\r"}, MaxBody)

InputStatuses == {200, 404, 500}

IdleInput ==
    [pc |-> "idle", out |-> "none", data |-> <<>>, gets |-> 0, body |-> <<>>,
     status |-> 0]

\* an input_data that raises the same error for every failure status
InputErrorGeneric(status) == "AocdError"

\* input_data lines 222-227: what a response of status >= 400 raises
InputError(status) ==
    IF status = 404 THEN "PuzzleLockedError" ELSE "AocdError"


\* an input_data that does not save what it fetched
atomic_write_file_skipped(file, contents_str) == file

\* an input_data that saves the text it returns
atomic_write_file_stripped(file, contents_str) == File(RStripNewlines(contents_str))

\* utils.atomic_write_file, run without interference: the file at path
\* after it returns
atomic_write_file(file, contents_str) == File(contents_str)

\* puzzle.input_data is read: the cache is tried first
InputDataCall ==
    /\ icall.pc = "idle"
    /\ icall' = IF IsFile(inputFile)
                THEN [IdleInput EXCEPT !.pc = "done", !.out = "hit",
                                       !.data = RStripNewlines(ReadText(inputFile))]
                ELSE [IdleInput EXCEPT !.pc = "get", !.gets = 1]
    /\ UNCHANGED <<inputFile, lastData>>
    /\ UNCHANGED notInput

\* the response to GET <puzzle url>/input arrives: the rest of input_data
InputResponse ==
    /\ icall.pc = "get"
    /\ \E status \in InputStatuses, body \in Bodies :
         IF status >= 400
         THEN /\ icall' = [icall EXCEPT !.pc = "done", !.status = status,
                                        !.out = InputError(status)]
              /\ UNCHANGED inputFile
         ELSE /\ inputFile' = atomic_write_file(inputFile, body)
              /\ icall' = [icall EXCEPT !.pc = "done", !.out = "fetched",
                                        !.body = body, !.status = status,
                                        !.data = RStripNewlines(body)]
    /\ UNCHANGED lastData
    /\ UNCHANGED notInput

\* input_data has returned or raised; the caller keeps what it got
InputReturn ==
    /\ icall.pc = "done"
    /\ lastData' = [out |-> icall.out, data |-> icall.data, gets |-> icall.gets]
    /\ icall' = IdleInput
    /\ UNCHANGED inputFile
    /\ UNCHANGED notInput

NoData == [out |-> "none", data |-> <<>>, gets |-> 0]

InitInput ==
    /\ inputFile = NoFile
    /\ icall = IdleInput
    /\ lastData = NoData

NextInput ==
    \/ InputDataCall
    \/ InputResponse
    \/ InputReturn

----------------------------------------------------------------------------
(* utils.atomic_write_file under concurrency *)

Writers == 1..NWriters

\* what the writers write
Contents == {<<"a", "b">>, <<"c">>}

TargetName == <<"path", 0>>

\* a write made in place, to the destination itself
InPlaceName(w) == TargetName

\* the name NamedTemporaryFile(dir=path.parent, delete=False) gives writer w
\* its file: a fresh name in the directory of path
TempName(w) == <<"tmp", w>>

FileNames == {TargetName} \cup {TempName(w) : w \in Writers}

\* atomic_write_file(path, v) is called by writer w
WriteCall(w) ==
    /\ wpc[w] = "idle"
    /\ \E v \in Contents : wdata' = [wdata EXCEPT ![w] = v]
    /\ wpc' = [wpc EXCEPT ![w] = "mkdir"]
    /\ UNCHANGED <<fs, parentDir, wrote, seen>>
    /\ UNCHANGED notAtomic

\* _ensure_intermediate_dirs(path)
Mkdir(w) ==
    /\ wpc[w] = "mkdir"
    /\ parentDir' = TRUE
    /\ wpc' = [wpc EXCEPT ![w] = "open"]
    /\ UNCHANGED <<fs, wdata, wrote, seen>>
    /\ UNCHANGED notAtomic

\* NamedTemporaryFile("w", dir=path.parent, delete=False) creates the file
OpenTemp(w) ==
    /\ wpc[w] = "open"
    /\ parentDir
    /\ fs' = [fs EXCEPT ![TempName(w)] = File(<<>>)]
    /\ wpc' = [wpc EXCEPT ![w] = "write"]
    /\ UNCHANGED <<parentDir, wdata, wrote, seen>>
    /\ UNCHANGED notAtomic

\* f.write(contents_str): the next character reaches the file
WriteChar(w) ==
    /\ wpc[w] = "write"
    /\ IsFile(fs[TempName(w)])
    /\ LET sofar == ReadText(fs[TempName(w)]) IN
       /\ Len(sofar) < Len(wdata[w])
       /\ fs' = [fs EXCEPT ![TempName(w)] = File(Append(sofar, wdata[w][Len(sofar) + 1]))]
    /\ UNCHANGED <<parentDir, wpc, wdata, wrote, seen>>
    /\ UNCHANGED notAtomic

\* the with block ends: everything is written and the file is closed
CloseTemp(w) ==
    /\ wpc[w] = "write"
    /\ IsFile(fs[TempName(w)])
    /\ ReadText(fs[TempName(w)]) = wdata[w]
    /\ wpc' = [wpc EXCEPT ![w] = "move"]
    /\ UNCHANGED <<fs, parentDir, wdata, wrote, seen>>
    /\ UNCHANGED notAtomic

\* shutil.move(f.name, path): a rename within one directory; atomic_write_file returns
Move(w) ==
    /\ wpc[w] = "move"
    /\ fs' = IF TempName(w) = TargetName THEN fs
             ELSE [fs EXCEPT ![TargetName] = fs[TempName(w)], ![TempName(w)] = NoFile]
    /\ wrote' = wrote \cup {wdata[w]}
    /\ wpc' = [wpc EXCEPT ![w] = "idle"]
    /\ UNCHANGED <<parentDir, wdata, seen>>
    /\ UNCHANGED notAtomic

\* somebody reads path (path.read_text(), as input_data does on a cache hit)
ReadPath ==
    /\ seen' = fs[TargetName]
    /\ UNCHANGED <<fs, parentDir, wpc, wdata, wrote>>
    /\ UNCHANGED notAtomic

InitAtomic ==
    /\ fs = [n \in FileNames |-> NoFile]
    /\ parentDir = FALSE
    /\ wpc = [w \in Writers |-> "idle"]
    /\ wdata = [w \in Writers |-> <<>>]
    /\ wrote = {}
    /\ seen = NoFile

NextAtomic ==
    \/ \E w \in Writers : WriteCall(w)
    \/ \E w \in Writers : Mkdir(w)
    \/ \E w \in Writers : OpenTemp(w)
    \/ \E w \in Writers : WriteChar(w)
    \/ \E w \in Writers : CloseTemp(w)
    \/ \E w \in Writers : Move(w)
    \/ ReadPath

----------------------------------------------------------------------------
(* HttpClient: times are hundredths of a second *)

\* HttpClient.__init__: self._max_t = 3.0
_max_t == 300

\* HttpClient.__init__: self._cooloff = 0.16
InitialCooloff == 16

\* HttpClient._limiter: min(self._cooloff, 10)
MaxCooloff == 1000

\* HttpClient.__init__: deque([...] * 4, maxlen=4)
HistoryLen == 4

\* the clock reading when the HttpClient is constructed: the window then
\* starts with timestamps of 0
StartTime == _max_t

\* how long the caller may wait between two requests
Pauses == {150, 300}

Methods == {"GET", "POST"}

min(a, b) == IF a < b THEN a ELSE b

\* deque.append on a deque with maxlen: a full deque drops its first element
deque_append(history, maxlen, x) ==
    IF Len(history) = maxlen
    THEN Append(Tail(history), x)
    ELSE Append(history, x)

\* a _limiter that doubles the cooloff without the cap
_limiter_uncapped(self, now) ==
    LET t0 == self._history[1]
        limited == now - t0 < self._max_t
    IN  [slept |-> IF limited THEN self._cooloff ELSE 0,
         self |-> [self EXCEPT
                     !._cooloff = IF limited THEN 2 * @ ELSE @,
                     !._history = deque_append(@, HistoryLen, now)]]

\* HttpClient._limiter, called at clock reading now: the time it sleeps and
\* the client it leaves
_limiter(self, now) ==
    LET t0 == self._history[1]
        limited == now - t0 < self._max_t
    IN  [slept |-> IF limited THEN self._cooloff ELSE 0,
         self |-> [self EXCEPT
                     !._cooloff = IF limited THEN min(2 * @, MaxCooloff) ELSE @,
                     !._history = deque_append(@, HistoryLen, now)]]

\* HttpClient.get and HttpClient.post: the limiter runs, its sleep moves the
\* clock, the request is made and counted
Request(method) ==
    LET limited == _limiter(http, clock) IN
    /\ clock + limited.slept <= MaxClock
    /\ clock' = clock + limited.slept
    /\ http' = [limited.self EXCEPT !.req_count[method] = @ + 1]
    /\ UNCHANGED notHttp

get == Request("GET")

post == Request("POST")

\* time passes between two requests
Pause ==
    /\ \E d \in Pauses :
          /\ clock + d <= MaxClock
          /\ clock' = clock + d
    /\ UNCHANGED http
    /\ UNCHANGED notHttp

\* HttpClient.__init__
InitHttp ==
    /\ clock = StartTime
    /\ http = [_max_t |-> _max_t,
               _cooloff |-> InitialCooloff,
               _history |-> [i \in 1..HistoryLen |-> StartTime - _max_t],
               req_count |-> [m \in Methods |-> 0]]

NextHttp ==
    \/ get
    \/ post
    \/ Pause

----------------------------------------------------------------------------
(* post.py: the module-level submit(answer, level) and its memo files *)

\* the level arguments: the five that line 32 admits, and one it does not
Levels ==
    {PyNone, PyInt(1), PyInt(2), PyStr(<<"1">>), PyStr(<<"2">>), PyInt(3)}

\* submit line 32: level not in {1, 2, "1", "2", None}
BadLevel(lvl) ==
    lvl \notin {PyInt(1), PyInt(2), PyStr(<<"1">>), PyStr(<<"2">>), PyNone}

\* str(val)
str(val) ==
    CASE val.t = "int" -> IntToStr(val.n)
      [] val.t = "NoneType" -> NoneText
      [] OTHER -> val.s

\* part = {"1": "a", "2": "b"}[str(level)]
PartOfLevel(lvl) == IF str(lvl) = <<"1">> THEN "a" ELSE "b"

\* post.save_correct_answer
save_correct_answer(m, answer, lvl) ==
    [m EXCEPT !.answer[PartOfLevel(lvl)] = File(Strip(str(answer)))]

\* post.save_incorrect_answer: one line is appended to the bad-answers file
save_incorrect_answer(m, answer, lvl, extra) ==
    [m EXCEPT !.bad[PartOfLevel(lvl)] =
        Append(@, [answer |-> Strip(str(answer)), extra |-> extra])]

\* post.get_incorrect_answers: the answers that are keys of the result
get_incorrect_answers(m, lvl) ==
    LET lines == m.bad[PartOfLevel(lvl)]
    IN {lines[i].answer : i \in 1..Len(lines)}

\* the answers a puzzle page shows in "Your puzzle answer was" paragraphs
Paras == {<<>>, << <<"7">> >>, << <<"7">>, <<"8">> >>}

\* a get_answer that does not look at the paragraphs of the page
page_answers_ignored(m, paras) == m

\* post.get_answer lines 147-154: the answers of the page are saved
page_answers(m, paras) ==
    IF paras = <<>> THEN m
    ELSE LET m1 == save_correct_answer(m, PyStr(paras[1]), PyInt(1))
         IN IF Len(paras) > 1
            THEN save_correct_answer(m1, PyStr(paras[2]), PyInt(2))
            ELSE m1

IdlePost ==
    [pc |-> "idle", answer |-> PyNone, level |-> PyNone, guessed |-> FALSE,
     out |-> "none", gets |-> 0, posts |-> 0, sleeps |-> 0, shown |-> 0,
     sent |-> PyNone]

\* submit lines 50-58, with the level settled: the guess is refused when it
\* is a known bad guess, and POSTed otherwise
AfterLevel(c, m) ==
    IF str(c.answer) \in get_incorrect_answers(m, c.level)
    THEN [c EXCEPT !.pc = "done", !.out = "return_none"]
    ELSE [c EXCEPT !.pc = "post"]

PostAnswers == {PyInt(1), PyStr(<<"1">>), PyStr(<<"2">>)}

\* submit lines 31-49, up to the GET of get_answer
submit ==
    /\ pcall.pc = "idle"
    /\ \E answer \in PostAnswers, lvl \in Levels :
         LET c == [IdlePost EXCEPT !.answer = answer, !.level = lvl,
                                   !.guessed = (lvl = PyNone)]
         IN pcall' =
              IF BadLevel(lvl)
              THEN [c EXCEPT !.pc = "done", !.out = "raise_AocdError"]
              ELSE IF lvl # PyNone
              THEN AfterLevel(c, memo)
              ELSE IF IsFile(memo.answer["a"])
              THEN AfterLevel([c EXCEPT !.level = PyInt(2)], memo)
              ELSE [c EXCEPT !.pc = "page"]
    /\ UNCHANGED memo
    /\ UNCHANGED notPost

\* get_answer(level=1) from its GET on (lines 140-159), and submit after it
get_answer_response ==
    /\ pcall.pc = "page"
    /\ \E status \in {200, 404, 500}, paras \in Paras :
         LET c == [pcall EXCEPT !.gets = @ + 1] IN
         IF status >= 400
         THEN /\ pcall' = [c EXCEPT !.pc = "done", !.out = "raise_HTTPError"]
              /\ UNCHANGED memo
         ELSE LET m == page_answers(memo, paras)
                  lvl == IF IsFile(m.answer["a"]) THEN PyInt(2) ELSE PyInt(1)
              IN /\ memo' = m
                 /\ pcall' = AfterLevel([c EXCEPT !.level = lvl,
                                                  !.shown = Len(paras)], m)
    /\ UNCHANGED notPost

PostMessages ==
    {MsgRight, MsgLevel, MsgWrong, MsgRecent, MsgRecentWait, MsgUnknown}

\* submit lines 59-100
post_response ==
    /\ pcall.pc = "post"
    /\ \E ok \in BOOLEAN, message \in PostMessages :
         LET c == [pcall EXCEPT !.posts = @ + 1, !.sent = pcall.level]
             found == FindWaits(message, 1)
         IN IF ~ok
            THEN /\ pcall' = [c EXCEPT !.pc = "done", !.out = "raise_AocdError"]
                 /\ UNCHANGED memo
            ELSE IF Contains(message, RIGHT)
            THEN /\ memo' = save_correct_answer(memo, c.answer, c.level)
                 /\ pcall' = [c EXCEPT !.pc = "done", !.out = "return_response"]
            ELSE IF Contains(message, DIDYOU)
            THEN /\ pcall' = [c EXCEPT !.pc = "done", !.out = "return_response"]
                 /\ UNCHANGED memo
            ELSE IF Contains(message, NOTRIGHT)
            THEN /\ memo' = save_incorrect_answer(memo, c.answer, c.level,
                                                  message)
                 /\ pcall' = [c EXCEPT !.pc = "done", !.out = "return_response"]
            ELSE IF Contains(message, RECENT) /\ Len(found) = 1
            THEN /\ c.posts < MaxPosts
                 /\ pcall' = AfterLevel([c EXCEPT !.sleeps = @ + 1], memo)
                 /\ UNCHANGED memo
            ELSE /\ pcall' = [c EXCEPT !.pc = "done", !.out = "return_response"]
                 /\ UNCHANGED memo
    /\ UNCHANGED notPost

submit_return ==
    /\ pcall.pc = "done"
    /\ pcall' = IdlePost
    /\ UNCHANGED memo
    /\ UNCHANGED notPost

InitPost ==
    /\ memo = [answer |-> [p \in Parts |-> NoFile],
               bad |-> [p \in Parts |-> <<>>]]
    /\ pcall = IdlePost

NextPost ==
    \/ submit
    \/ get_answer_response
    \/ post_response
    \/ submit_return

----------------------------------------------------------------------------
(* runner.run_for: the loop over the answers (a, b) of one run of a solver *)

\* what a solver returns for a part, after str(...)[:60]
RunAnswers == {<<"1">>, <<"2">>}

\* examples[dataset].answer_a / answer_b: None, or a text
ExampleAnswers == {<<>>, << <<"1">> >>}

IdleRun ==
    [pc |-> "idle", example |-> FALSE, autosubmit |-> FALSE, error |-> FALSE,
     answer |-> [p \in Parts |-> <<>>], examples |-> [p \in Parts |-> <<>>],
     part |-> "a", expected |-> <<>>, out |-> "none", submitted |-> {}]

\* the exceptions of Puzzle._submit and of the getters that are AocdError
AocdErrors ==
    {"raise_non_answer", "raise_bad_part", "raise_part_a_answer", "raise_http",
     "raise_dead_token"}

\* a runner that posts whatever part has no known answer
should_post_any(part, answered_a) == TRUE

\* run_for: post = part == "a" or (part == "b" and puzzle.answered_a)
should_post(part, answered_a) == part = "a" \/ (part = "b" /\ answered_a)

\* the loop goes on to the next part, or ends after part b
NextPart(r, expected) ==
    IF r.part = "a"
    THEN [r EXCEPT !.pc = "part", !.part = "b", !.expected = expected]
    ELSE [r EXCEPT !.pc = "done", !.expected = expected, !.out = "return"]

\* an exception leaves run_for
RunRaises(r, out) == [r EXCEPT !.pc = "done", !.out = out]

\* run_for from "post = ..." on, up to the first request of _submit
Decide(r, answered_a) ==
    IF (r.autosubmit /\ ~r.example) /\ should_post(r.part, answered_a)
    THEN /\ run' = [r EXCEPT !.pc = "submit", !.submitted = @ \cup {r.part}]
         /\ call' = SubmitBody([IdleCall EXCEPT !.op = "submit",
                                                !.value = PyStr(r.answer[r.part]),
                                                !.part = r.part],
                               answerFile, submitLog)
    ELSE /\ run' = NextPart(r, <<>>)
         /\ call' = IdleCall

\* run_for is at the answers of a run: the solver has returned a and b, or
\* has raised
RunStart ==
    /\ run.pc = "idle"
    /\ call.pc = "idle"
    /\ \E example \in BOOLEAN, autosubmit \in BOOLEAN, error \in BOOLEAN,
          a \in RunAnswers, b \in RunAnswers,
          xa \in ExampleAnswers, xb \in ExampleAnswers :
         /\ ~example => xa = <<>> /\ xb = <<>>
         /\ error => a = <<"1">> /\ b = <<"1">>
         /\ run' = [IdleRun EXCEPT
                      !.pc = IF error THEN "done" ELSE "part",
                      !.out = IF error THEN "return" ELSE "none",
                      !.example = example,
                      !.autosubmit = autosubmit,
                      !.error = error,
                      !.answer = IF error THEN [p \in Parts |-> <<>>]
                                 ELSE [p \in Parts |-> IF p = "a" THEN a ELSE b],
                      !.examples = [p \in Parts |-> IF p = "a" THEN xa ELSE xb]]
    /\ UNCHANGED submitVars
    /\ UNCHANGED notRun

\* the loop body for one part, up to the request of the answer getter
RunPart ==
    /\ run.pc = "part"
    /\ IF day = 25 /\ run.part = "b"
       THEN /\ run' = NextPart(run, <<>>)
            /\ UNCHANGED call
       ELSE IF run.example
       THEN /\ run' = NextPart(run, run.examples[run.part])
            /\ UNCHANGED call
       ELSE /\ run' = [run EXCEPT !.pc = "get"]
            /\ call' = Getter(run.part, answerFile)
    /\ UNCHANGED <<day, answerFile, proseFiles, submitLog>>
    /\ UNCHANGED notRun

\* getattr(puzzle, "answer_" + part) has returned or raised
RunGot ==
    /\ run.pc = "get"
    /\ call.pc = "done"
    /\ IF call.out = "answer"
       THEN /\ run' = NextPart(run, <<call.result>>)
            /\ call' = IdleCall
       ELSE IF call.out # "AttributeError"
       THEN /\ run' = RunRaises(run, call.out)
            /\ call' = IdleCall
       ELSE IF run.part = "a"
       THEN Decide(run, FALSE)
       ELSE /\ run' = [run EXCEPT !.pc = "answered"]
            /\ call' = Getter("a", answerFile)
    /\ UNCHANGED <<day, answerFile, proseFiles, submitLog>>
    /\ UNCHANGED notRun

\* puzzle.answered_a has its value: bool(getattr(self, "answer_a", None))
RunAnswered ==
    /\ run.pc = "answered"
    /\ call.pc = "done"
    /\ IF call.out \notin {"answer", "AttributeError"}
       THEN /\ run' = RunRaises(run, call.out)
            /\ call' = IdleCall
       ELSE Decide(run, call.out = "answer" /\ call.result # <<>>)
    /\ UNCHANGED <<day, answerFile, proseFiles, submitLog>>
    /\ UNCHANGED notRun

\* puzzle._submit has returned or raised: an AocdError is logged, and the
\* answer is read again
RunSubmitted ==
    /\ run.pc = "submit"
    /\ call.pc = "done"
    /\ IF call.out \in Raises \ AocdErrors
       THEN /\ run' = RunRaises(run, call.out)
            /\ call' = IdleCall
       ELSE /\ run' = [run EXCEPT !.pc = "reget"]
            /\ call' = Getter(run.part, answerFile)
    /\ UNCHANGED <<day, answerFile, proseFiles, submitLog>>
    /\ UNCHANGED notRun

\* the second getattr(puzzle, "answer_" + part) has returned or raised
RunRegot ==
    /\ run.pc = "reget"
    /\ call.pc = "done"
    /\ run' = IF call.out = "answer" THEN NextPart(run, <<call.result>>)
              ELSE IF call.out = "AttributeError" THEN NextPart(run, <<>>)
              ELSE RunRaises(run, call.out)
    /\ call' = IdleCall
    /\ UNCHANGED <<day, answerFile, proseFiles, submitLog>>
    /\ UNCHANGED notRun

\* the run is over; the next one starts on the same cache
RunReturn ==
    /\ run.pc = "done"
    /\ run' = IdleRun
    /\ UNCHANGED submitVars
    /\ UNCHANGED notRun

RunMessages == {MsgRight, MsgWrong, MsgRecentWait}

RunPostResponse == PostResponseOf(RunMessages, MaxRetryLog)

InitRun == run = IdleRun

NextRun ==
    \/ RunStart
    \/ RunPart
    \/ RunGot
    \/ RunAnswered
    \/ RunSubmitted
    \/ RunRegot
    \/ RunReturn
    \/ PageResponse
    \/ RunPostResponse
    \/ Sleep
    \/ StatsResponse

----------------------------------------------------------------------------
(* User.id: the memo of token -> id, in each process and on disk *)

Procs == {1, 2}

Tokens == {"t1", "t2"}

\* the order of the tokens as strings (json.dumps with sort_keys=True)
TokenOrder == <<"t1", "t2">>

\* what get_owner can make of the settings page
Owners == {"a.u.1", "a.u.2"}

UnknownOwner == "unknown.unknown.0"

EmptyDict == [t \in {} |-> UnknownOwner]

\* json.dumps(d, sort_keys=True, indent=2): the items in the order of their keys
dumps(d) ==
    LET keys == SelectSeq(TokenOrder, LAMBDA t : t \in DOMAIN d)
    IN [i \in 1..Len(keys) |-> <<keys[i], d[keys[i]]>>]

\* json.loads(txt)
loads(txt) ==
    [t \in {txt[i][1] : i \in 1..Len(txt)} |->
        txt[CHOOSE i \in 1..Len(txt) : txt[i][1] = t][2]]

\* a memo that keeps the new mapping alone
with_owner_alone(d, token, owner) == [t \in {token} |-> owner]

\* User._token2id[self.token] = owner
with_owner(d, token, owner) ==
    [t \in DOMAIN d \cup {token} |-> IF t = token THEN owner ELSE d[t]]

\* a process before its first User.id: User._token2id is None, no User has
\* an _owner yet
IdleProc ==
    [loaded |-> FALSE, _token2id |-> EmptyDict,
     _owner |-> [t \in Tokens |-> UnknownOwner],
     pc |-> "idle", token |-> "t1", out |-> "none", result |-> UnknownOwner,
     asked |-> FALSE,
     lookups |-> [t \in Tokens |-> 0],
     first |-> [t \in Tokens |-> UnknownOwner]]

\* User.id returns owner
IdReturns(pr, owner) ==
    [pr EXCEPT !.pc = "done", !.out = "id", !.result = owner,
               !._owner[pr.token] = IF @ = UnknownOwner THEN owner ELSE @,
               !.first[pr.token] = IF @ = UnknownOwner THEN owner ELSE @]

\* User(token).id is read in process p: up to the request of get_owner
IdCall(p) ==
    /\ procs[p].pc = "idle"
    /\ \E token \in Tokens :
         LET pr == procs[p]
             d == IF pr.loaded THEN pr._token2id
                  ELSE IF IsFile(token2idFile) THEN loads(ReadText(token2idFile))
                  ELSE EmptyDict
             pr1 == [pr EXCEPT !.loaded = TRUE, !._token2id = d, !.token = token,
                               !.out = "none", !.result = UnknownOwner,
                               !.asked = token \notin DOMAIN d]
         IN IF token \notin DOMAIN d
            THEN /\ pr.lookups[token] < MaxLookups
                 /\ procs' = [procs EXCEPT ![p] =
                                [pr1 EXCEPT !.pc = "lookup", !.lookups[token] = @ + 1]]
            ELSE procs' = [procs EXCEPT ![p] = IdReturns(pr1, d[token])]
    /\ UNCHANGED token2idFile
    /\ UNCHANGED notUser

\* the response to GET /settings arrives: the rest of get_owner and of User.id
OwnerResponse(p) ==
    /\ procs[p].pc = "lookup"
    /\ \E status \in {200, 302}, owner \in Owners :
         LET pr == procs[p] IN
         IF status # 200
         THEN /\ procs' = [procs EXCEPT ![p] =
                             [pr EXCEPT !.pc = "done", !.out = "DeadTokenError"]]
              /\ UNCHANGED token2idFile
         ELSE LET d == with_owner(pr._token2id, pr.token, owner) IN
              /\ token2idFile' = File(dumps(d))
              /\ procs' = [procs EXCEPT ![p] =
                             IdReturns([pr EXCEPT !._token2id = d], owner)]
    /\ UNCHANGED notUser

\* User.id has returned or raised
IdReturn(p) ==
    /\ procs[p].pc = "done"
    /\ procs' = [procs EXCEPT ![p].pc = "idle"]
    /\ UNCHANGED token2idFile
    /\ UNCHANGED notUser

\* the memo file is missing, or holds one mapping
InitUser ==
    /\ token2idFile \in {NoFile, File(<< <<"t1", "a.u.1">> >>)}
    /\ procs = [p \in Procs |-> IdleProc]

\* the same, with the file missing
InitUserNoFile ==
    /\ token2idFile = NoFile
    /\ procs = [p \in Procs |-> IdleProc]

NextUser ==
    \/ \E p \in Procs : IdCall(p)
    \/ \E p \in Procs : OwnerResponse(p)
    \/ \E p \in Procs : IdReturn(p)

----------------------------------------------------------------------------
(* Puzzle._get_prose and its callers Puzzle.examples and Puzzle.title *)

OneArticle == [title |-> TRUE, articles |-> 1, h2 |-> "ok"]
TitleOnly == [title |-> TRUE, articles |-> 0, h2 |-> "none"]
NoTitle == [title |-> FALSE, articles |-> 1, h2 |-> "bad"]
ManyArticles == [title |-> TRUE, articles |-> 3, h2 |-> "ok"]

\* the html of the pages: whether <title> reads "Day d - Advent of Code y",
\* how many <article> there are, and the <h2>: none, one that is not
\* "--- Day d: ... ---", one that is
Htmls == {PlainHtml, OneArticle, TitleOnly, NoTitle, ManyArticles}

ProsePage(status, kind, pa, pb, advent, html) ==
    [status |-> status, kind |-> kind, pa |-> pa, pb |-> pb, advent |-> advent,
     html |-> html]

\* the responses to GET <puzzle url>; a title that matches holds the words
\* "Advent of Code"
ProsePages ==
    {ProsePage(500, "none", <<>>, <<>>, FALSE, NoTitle),
     ProsePage(200, "both", <<"1">>, <<"2">>, TRUE, PlainHtml),
     ProsePage(200, "first", <<"1">>, <<>>, TRUE, OneArticle)}
    \cup {ProsePage(200, "none", <<>>, <<>>, x.advent, x.html) :
            x \in {y \in [advent : BOOLEAN, html : Htmls] :
                     y.html.title => y.advent}}

\* the prose files another user has cached
OtherText2 == [kind |-> "both", html |-> OneArticle]
OtherText1 == [kind |-> "first", html |-> TitleOnly]

\* a _get_prose that prefers the files of the user to those of other users
prose_order_own_first == <<"prose2", "prose1", "other2", "other1", "prose0">>

\* _get_prose lines 748-759: the order the places are tried in
prose_order == <<"prose2", "other2", "prose1", "other1", "prose0">>

\* _get_prose lines 762-765: the order after the page has been requested
fetched_order == <<"prose2", "prose1", "prose0">>

\* the first place of order that holds a file, or "none"
FirstProse(pf, order) ==
    LET hits == SelectSeq(order, LAMBDA place : IsFile(pf[place]))
    IN IF hits = <<>> THEN "none" ELSE hits[1]

\* what _get_prose comes back with: the exception it raised, or the text and
\* the place it was read from
ProseRaised(err) == [err |-> err, text |-> PageText([kind |-> "none"]), served |-> "none"]
ProseRead(pf, place) == [err |-> "none", text |-> ReadText(pf[place]), served |-> place]

\* examples.Page.from_raw: the exception it raises on a text, or "none"
from_raw_error(text) ==
    IF ~text.html.title THEN "ExampleParserError"
    ELSE IF text.html.articles = 0 THEN "ExampleParserError"
    ELSE IF text.html.articles > 2 THEN "ExampleParserError"
    ELSE "none"

\* what the example parser plugin does: it is not found, it raises, it returns
\* a list of n examples
ParserOutcomes ==
    {[err |-> "ExampleParserError", n |-> 0], [err |-> "IndexError", n |-> 0],
     [err |-> "none", n |-> 0], [err |-> "none", n |-> 1]}

\* an _get_examples that catches the errors of the package only
CaughtAocdOnly(err) == err \in {"AocdError", "ExampleParserError"}

\* _get_examples line 258: except Exception
Caught(err) == TRUE

\* Puzzle._get_examples, once _get_prose has come back with pr
ExamplesDone(c, pr, outcome) ==
    LET err == IF pr.err # "none" THEN pr.err
               ELSE IF from_raw_error(pr.text) # "none" THEN from_raw_error(pr.text)
               ELSE outcome.err
        c1 == [c EXCEPT !.pc = "done", !.served = pr.served, !.err = err]
    IN IF err = "none"
       THEN [c1 EXCEPT !.out = "examples",
                       !.result = [i \in 1..outcome.n |-> "example"]]
       ELSE IF Caught(err)
       THEN [c1 EXCEPT !.out = "examples", !.warned = TRUE, !.result = <<>>]
       ELSE [c1 EXCEPT !.out = "raise"]

\* Puzzle.title, once _get_prose has come back with pr
TitleDone(c, pr) ==
    LET err == IF pr.err # "none" THEN pr.err
               ELSE IF pr.text.html.h2 # "ok" THEN "AocdError"
               ELSE "none"
        c1 == [c EXCEPT !.pc = "done", !.served = pr.served, !.err = err]
    IN IF err = "none" THEN [c1 EXCEPT !.out = "title", !.result = <<"title">>]
       ELSE [c1 EXCEPT !.out = "raise"]

\* the caller of _get_prose goes on
ProseDone(c, pr, outcome) ==
    IF c.op = "examples" THEN ExamplesDone(c, pr, outcome)
    ELSE IF c.op = "title" THEN TitleDone(c, pr)
    ELSE IF pr.err # "none"
    THEN [c EXCEPT !.pc = "done", !.out = "raise", !.err = pr.err]
    ELSE [c EXCEPT !.pc = "done", !.out = "prose", !.served = pr.served,
                   !.result = <<pr.text>>]

\* cached_property: the title is kept once it has been returned
KeepTitle(c) == IF c.op = "title" /\ c.out = "title" THEN c.result ELSE titleCache

ProseOps == {"_get_prose", "examples", "title"}

\* puzzle._get_prose(), puzzle.examples or puzzle.title is called: up to the
\* page request of _get_prose
ProseCall ==
    /\ call.pc = "idle"
    /\ \E op \in ProseOps, outcome \in ParserOutcomes :
         LET c == [IdleCall EXCEPT !.op = op]
             place == FirstProse(proseFiles, prose_order)
             c1 == IF op = "title" /\ titleCache # <<>>
                   THEN [c EXCEPT !.pc = "done", !.out = "title",
                                  !.result = titleCache]
                   ELSE IF place # "none"
                   THEN ProseDone(c, ProseRead(proseFiles, place), outcome)
                   ELSE RequestPage(c, "prose")
         IN /\ call' = c1
            /\ titleCache' = KeepTitle(c1)
    /\ UNCHANGED <<day, answerFile, proseFiles, submitLog>>
    /\ UNCHANGED notProse

\* the response to the GET of _request_puzzle_page arrives, for _get_prose:
\* the rest of _request_puzzle_page, of _get_prose and of its caller
ProsePageResponse ==
    /\ call.pc = "page"
    /\ call.ret = "prose"
    /\ \E page \in ProsePages, outcome \in ParserOutcomes :
         IF page.status # 200
         THEN LET c1 == ProseDone(call, ProseRaised("AocdError"), outcome) IN
              /\ call' = c1
              /\ titleCache' = KeepTitle(c1)
              /\ UNCHANGED <<answerFile, proseFiles>>
         ELSE LET af == ScrapeAnswers(answerFile, page)
                  pf == ScrapeProse(proseFiles, page)
                  place == FirstProse(pf, fetched_order)
                  pr == IF place = "none" THEN ProseRaised("AocdError")
                        ELSE ProseRead(pf, place)
                  c1 == ProseDone(Noting(call, af, submitLog), pr, outcome)
              IN /\ answerFile' = af
                 /\ proseFiles' = pf
                 /\ call' = c1
                 /\ titleCache' = KeepTitle(c1)
    /\ UNCHANGED <<day, submitLog>>
    /\ UNCHANGED notProse

\* the operation has returned or raised; the caller goes on
ProseReturn ==
    /\ call.pc = "done"
    /\ call' = IdleCall
    /\ UNCHANGED <<day, answerFile, proseFiles, submitLog>>
    /\ UNCHANGED notSubmit

\* another user of the same data directory caches a prose file of the puzzle
OtherUserCaches ==
    /\ \E o \in {<<"other2", OtherText2>>, <<"other1", OtherText1>>} :
         /\ ~IsFile(proseFiles[o[1]])
         /\ proseFiles' = [proseFiles EXCEPT ![o[1]] = File(o[2])]
    /\ UNCHANGED <<day, answerFile, submitLog, call>>
    /\ UNCHANGED notSubmit

InitProse == titleCache = <<>>

NextProse ==
    \/ ProseCall
    \/ ProsePageResponse
    \/ ProseReturn
    \/ OtherUserCaches

----------------------------------------------------------------------------
(* Puzzle._coerce_val on the values an answer may be *)

\* the types of _types._Answer that hold a number other than int: float,
\* complex and the scalar types of numpy; numpy.float64 is a float and
\* numpy.complex128 is a complex
NumberTypes ==
    {PyType("float", <<"f", "l", "o", "a", "t">>,
            "builtins", {"float"}, "real"),
     PyType("complex", <<"c", "o", "m", "p", "l", "e", "x">>,
            "builtins", {"complex"}, "complex"),
     PyType("int32", <<"i", "n", "t", "3", "2">>,
            "numpy", {}, "int"),
     PyType("uint32", <<"u", "i", "n", "t", "3", "2">>,
            "numpy", {}, "int"),
     PyType("longlong", <<"l", "o", "n", "g", "l", "o", "n", "g">>,
            "numpy", {}, "int"),
     PyType("float16", <<"f", "l", "o", "a", "t", "1", "6">>,
            "numpy", {}, "real"),
     PyType("float32", <<"f", "l", "o", "a", "t", "3", "2">>,
            "numpy", {}, "real"),
     PyType("float64", <<"f", "l", "o", "a", "t", "6", "4">>,
            "numpy", {"float"}, "real"),
     PyType("longdouble", <<"l", "o", "n", "g", "d", "o", "u", "b", "l", "e">>,
            "numpy", {}, "real"),
     PyType("complex64", <<"c", "o", "m", "p", "l", "e", "x", "6", "4">>,
            "numpy", {}, "complex"),
     PyType("complex128", <<"c", "o", "m", "p", "l", "e", "x", "1", "2", "8">>,
            "numpy", {"complex"}, "complex"),
     PyType("clongdouble", <<"c", "l", "o", "n", "g", "d", "o", "u", "b", "l", "e">>,
            "numpy", {}, "complex")}

\* real and imaginary parts, in halves: 0, 1, 1.5, 123, 123.5
Halves == {0, 2, 3, 246, 247}

CoerceInts == {0, 1, 12, 123}

\* the values _coerce_val is called with
CoerceInputs ==
    Guesses
    \cup {PyInt(n) : n \in CoerceInts}
    \cup {PyNumber(type, 2 * n, 0) :
            type \in {y \in NumberTypes : y.kind = "int"}, n \in CoerceInts}
    \cup {PyNumber(type, re2, 0) :
            type \in {y \in NumberTypes : y.kind = "real"}, re2 \in Halves}
    \cup {PyNumber(type, re2, im2) :
            type \in {y \in NumberTypes : y.kind = "complex"},
            re2 \in Halves, im2 \in {0, 1, 246}}

IdleCoerce == [pc |-> "idle", arg |-> PyNone, ret |-> PyNone, warnings |-> 0]

\* puzzle._coerce_val(val) is called and returns
CoerceCall ==
    /\ cv.pc = "idle"
    /\ \E val \in CoerceInputs :
         cv' = [pc |-> "done", arg |-> val, ret |-> coerce(val).val,
                warnings |-> coerce(val).warnings]
    /\ UNCHANGED notCoerce

\* the caller goes on
CoerceReturn ==
    /\ cv.pc = "done"
    /\ cv' = IdleCoerce
    /\ UNCHANGED notCoerce

InitCoerce == cv = IdleCoerce

NextCoerce ==
    \/ CoerceCall
    \/ CoerceReturn

----------------------------------------------------------------------------

Init ==
    /\ day \in Days
    /\ answerFile = [p \in Parts |-> NoFile]
    /\ proseFiles = NoProse
    /\ submitLog = <<>>
    /\ call = IdleCall
    /\ InitInput
    /\ InitAtomic
    /\ InitHttp
    /\ InitPost
    /\ InitRun
    /\ InitUserNoFile
    /\ InitProse
    /\ InitCoerce

Next ==
    \/ SubmitCall
    \/ SetterCall
    \/ GetAnswerCall
    \/ PageResponse
    \/ PostResponse
    \/ Sleep
    \/ StatsResponse
    \/ Return

Spec == Init /\ [][Next]_vars

InitDay1 == Init /\ day = 1

\* _submit under a server that rate-limits: the replies state their wait in
\* every form, or in none
RetryInputs == {<<PyStr(<<"1">>), "a">>, <<PyStr(<<"2">>), "b">>}

RetryMessages ==
    {MsgRight, MsgWrong, MsgRecent, MsgRecentWait, MsgWait2m5s, MsgWait0m7s,
     MsgWaitTwice, MsgLevel, MsgUnknown}

RetrySubmitCall == SubmitCallOf(RetryInputs)

RetryPostResponse == PostResponseOf(RetryMessages, MaxRetryLog)

NextRetry ==
    \/ RetrySubmitCall
    \/ PageResponse
    \/ RetryPostResponse
    \/ Sleep
    \/ Return

SpecRetry == InitDay1 /\ [][NextRetry]_vars

\* _submit and the answer getters under a server that says right or wrong,
\* the guesses written with and without surrounding blanks
SolveInputs == {PyStr(<<" ", "1">>), PyStr(<<"2">>)} \X Parts

SolveMessages == {MsgRight, MsgWrong}

SolveSubmitCall == SubmitCallOf(SolveInputs)

SolvePostResponse == PostResponseOf(SolveMessages, MaxRetryLog)

SolvePageResponse == PageResponseOf(TRUE)

NextSolve ==
    \/ SolveSubmitCall
    \/ GetAnswerCall
    \/ SolvePageResponse
    \/ SolvePostResponse
    \/ StatsResponse
    \/ Return

SpecSolve == Init /\ [][NextSolve]_vars

\* the answer files a puzzle may have when _submit is called: none, an empty
\* one, one that holds an answer
KnownFiles == {NoFile, File(<<>>), File(<<"1">>)}

KnownInputs == {PyStr(<<"1">>), PyStr(<<"2">>)} \X Parts

KnownSubmitCall == SubmitCallOf(KnownInputs)

InitKnown ==
    /\ day = 1
    /\ answerFile \in [Parts -> KnownFiles]
    /\ proseFiles = NoProse
    /\ submitLog = <<>>
    /\ call = IdleCall
    /\ InitInput
    /\ InitAtomic
    /\ InitHttp
    /\ InitPost
    /\ InitRun
    /\ InitUserNoFile
    /\ InitProse
    /\ InitCoerce

NextKnown ==
    \/ KnownSubmitCall
    \/ PageResponse
    \/ PostResponse
    \/ Sleep
    \/ Return

\* _submit for a puzzle that has answer files already, under any server
SpecKnown == InitKnown /\ [][NextKnown]_vars

\* the operations of a puzzle that has answer files already, one after
\* another: _submit, the answer getters, the prose readers, input_data
ForwardInputs == {PyStr(<<"1">>), PyStr(<<"2">>)} \X {"a"}

ForwardSubmitCall == icall.pc = "idle" /\ SubmitCallOf(ForwardInputs)
ForwardGetAnswerCall == icall.pc = "idle" /\ GetAnswerCall
ForwardProseCall == icall.pc = "idle" /\ ProseCall
ForwardInputDataCall == call.pc = "idle" /\ InputDataCall

\* the server sends the one puzzle input there is
ForwardInputResponse ==
    /\ InputResponse
    /\ IsFile(inputFile') => ReadText(inputFile') = <<"7", "\n">>

NextForward ==
    \/ ForwardSubmitCall
    \/ ForwardGetAnswerCall
    \/ ForwardProseCall
    \/ ForwardInputDataCall
    \/ PageResponse
    \/ ProsePageResponse
    \/ SolvePostResponse
    \/ Return
    \/ ForwardInputResponse
    \/ InputReturn

SpecForward == InitKnown /\ [][NextForward]_vars

\* the input cache alone
SpecInput == InitDay1 /\ [][NextInput]_vars

\* the writers and readers of one path alone
SpecAtomic == InitDay1 /\ [][NextAtomic]_vars

\* the HttpClient alone, under any sequence of requests and pauses
SpecHttp == InitDay1 /\ [][NextHttp]_vars

\* post.py: submit calls one after another, under any server
SpecPost == InitDay1 /\ [][NextPost]_vars

\* runner.run_for: runs one after another on one puzzle, under any server
SpecRun == Init /\ [][NextRun]_vars

\* the state before any operation, with either memo file
InitUserDay1 ==
    /\ day = 1
    /\ answerFile = [p \in Parts |-> NoFile]
    /\ proseFiles = NoProse
    /\ submitLog = <<>>
    /\ call = IdleCall
    /\ InitInput
    /\ InitAtomic
    /\ InitHttp
    /\ InitPost
    /\ InitRun
    /\ InitUser
    /\ InitProse
    /\ InitCoerce

\* User.id in two processes that share the memo file, under any server
SpecUser == InitUserDay1 /\ [][NextUser]_vars

\* the state before any operation, with any prose files of other users
InitProseDay1 ==
    /\ day = 1
    /\ answerFile = [p \in Parts |-> NoFile]
    /\ proseFiles \in {[NoProse EXCEPT !["other2"] = o2, !["other1"] = o1] :
                          o2 \in {NoFile, File(OtherText2)},
                          o1 \in {NoFile, File(OtherText1)}}
    /\ submitLog = <<>>
    /\ call = IdleCall
    /\ InitInput
    /\ InitAtomic
    /\ InitHttp
    /\ InitPost
    /\ InitRun
    /\ InitUserNoFile
    /\ InitProse
    /\ InitCoerce

\* the readers of the prose, one call after another, under any server
SpecProse == InitProseDay1 /\ [][NextProse]_vars

\* _coerce_val on one value after another
SpecCoerce == InitDay1 /\ [][NextCoerce]_vars

----------------------------------------------------------------------------
(* Properties of the submission machine *)

\* the call is a plain Puzzle._submit(value, part) that has ended without a POST:
\* the log and the guess are those _submit was called with
EndedLocally(c) ==
    /\ c.pc = "done"
    /\ c.op = "submit"
    /\ c.posts = 0
    /\ c.out \notin {"raise_non_answer", "raise_bad_part"}

LocalRefusals == {"again", "certain_right", "certain_high", "certain_low"}

\* the records of the log that are about part
RecordsOf(part) == {i \in 1..Len(submitLog) : submitLog[i].part = part}

Skipped(message) == \E pre \in skip_prefix : StartsWith(message, pre)

\* the cached answer of part is txt (a part with no answer file has none)
Solved(part, txt) ==
    /\ IsFile(answerFile[part])
    /\ Strip(ReadText(answerFile[part])) = txt
    /\ txt # <<>>

\* C1: once the log holds a "too high" record for guess G of a part, no POST is
\* made for that part with a number G' >= G; and once it holds a "too low"
\* record for G, none with a number G' <= G.
C1_NoPostBeyondBound ==
    call.pc = "post" =>
      \A i \in RecordsOf(CurPart(call)) :
        LET r == submitLog[i]
            value == CurValue(call).s
        IN (IsInt(value) /\ IsInt(r.value)) =>
             /\ Contains(r.message, TOOHIGH) => ~(ToInt(value) >= ToInt(r.value))
             /\ Contains(r.message, TOOLOW) => ~(ToInt(value) <= ToInt(r.value))

\* C2 as stated: an answer file that holds an answer is not given another
\* content unless the operation ends by raising an error.
C2_NeverOverwritten ==
    [][\A p \in Parts :
         (IsFile(answerFile[p]) /\ ReadText(answerFile[p]) # <<>>
            /\ answerFile'[p] # answerFile[p])
         => (call'.pc = "done" /\ call'.out \in Raises)]_vars

\* C2, amended: an answer file that holds an answer is given another content
\* only by the scrape of a puzzle page (the step that handles the response to
\* the GET of _request_puzzle_page), never by the handling of a POST's response
\* or by a call that finds the answer in the cache; the file then still holds
\* an answer, and the operation goes on without raising for it.
C2_OverwrittenOnlyByScrape ==
    [][\A p \in Parts :
         (IsFile(answerFile[p]) /\ ReadText(answerFile[p]) # <<>>
            /\ answerFile'[p] # answerFile[p])
         => /\ call.pc = "page"
            /\ IsFile(answerFile'[p]) /\ ReadText(answerFile'[p]) # <<>>
            /\ p \in call'.overwrote]_vars

\* C2 witness: an operation has ended normally after a scrape replaced an answer
C2_Witness ==
    /\ call.pc = "done"
    /\ call.overwrote # {}
    /\ call.out \notin Raises

\* C3: no POST is in flight for a value equal to the cached answer of its
\* part: re-submitting the answer of a solved part never POSTs.
C3_NoPostOfCachedAnswer ==
    call.pc = "post" => ~Solved(CurPart(call), CurValue(call).s)

\* C3 witness: _submit was given the cached answer of a solved part and ended
\* with "already solved with same answer", without a POST
C3_Witness ==
    /\ call.pc = "done"
    /\ call.op = "submit"
    /\ call.out = "solved_same"
    /\ call.posts = 0
    /\ Solved(call.part, call.value.s)

\* C4 as stated: no POST is in flight for a guess while the log holds a
\* record of the same part with the identical value.
C4_NoPostOfLoggedGuess ==
    call.pc = "post" =>
      \A i \in RecordsOf(CurPart(call)) : submitLog[i].value # CurValue(call).s

\* the first record of the log that is about part and value and is not one the
\* history loop skips
RepeatOf(value, part) ==
    {i \in RecordsOf(part) : submitLog[i].value = value
                               /\ ~Skipped(submitLog[i].message)}

\* C4, amended: if the log holds a record of the same part with the identical
\* value whose message does not start with "You gave an answer too recently"
\* or "You don't seem to be solving the right level", no POST is made, and
\* _submit ends by replaying the message of the first such record, with
\* nothing appended to the log.  (A record with one of those two messages is
\* skipped: the guess is POSTed again.)
C4_NoRepostOfAnsweredGuess ==
    /\ call.pc = "post" => RepeatOf(CurValue(call).s, CurPart(call)) = {}
    /\ (EndedLocally(call) /\ RepeatOf(call.value.s, call.part) # {})
         => /\ call.out = "again"
            /\ call.idx \in RepeatOf(call.value.s, call.part)
            /\ \A j \in RepeatOf(call.value.s, call.part) : call.idx <= j
            /\ call.changed = {}

\* C4 witness: a repeated guess was refused by replaying the logged message
C4_Witness ==
    /\ EndedLocally(call)
    /\ call.out = "again"
    /\ RepeatOf(call.value.s, call.part) # {}

\* the records of part that hold a right answer other than value
RightOthers(value, part) ==
    {i \in RecordsOf(part) : StartsWith(submitLog[i].message, RIGHT)
                               /\ submitLog[i].value # value}

\* C5: if the log holds a record of the same part whose message starts with
\* "That's the right answer" and whose value differs from the guess, no POST
\* is made, and _submit ends with a local refusal, the log and the answer
\* files unchanged.
C5_RefusedAgainstRightAnswer ==
    /\ call.pc = "post" => RightOthers(CurValue(call).s, CurPart(call)) = {}
    /\ (EndedLocally(call) /\ RightOthers(call.value.s, call.part) # {})
         => /\ call.out \in LocalRefusals
            /\ call.changed = {}

\* C5 witness: a guess was refused because another value is logged as right
C5_Witness ==
    /\ EndedLocally(call)
    /\ call.out = "certain_right"
    /\ RightOthers(call.value.s, call.part) # {}

\* _submit(value, "b") has ended, and part a's cached answer, which the call
\* has left as it was, is value
EndedOnPartAAnswer(c) ==
    /\ c.pc = "done"
    /\ c.op = "submit"
    /\ ~c.nested
    /\ c.out \notin {"raise_non_answer", "raise_bad_part"}
    /\ c.part = "b"
    /\ "a" \notin c.changed
    /\ Solved("a", c.value.s)

\* C6 as stated: _submit for part b with the known answer of part a raises
\* AocdError, with no POST and no log record.
C6_RaisesOnPartAAnswer ==
    EndedOnPartAAnswer(call) =>
      /\ call.out = "raise_part_a_answer"
      /\ call.posts = 0
      /\ "log" \notin call.changed

\* C6, amended: _submit for part b with the known answer of part a makes no
\* POST and writes no log record; it raises AocdError unless a record of
\* part b in the log has already refused the guess (then it returns after
\* that refusal).
C6_NoPostOfPartAAnswer ==
    /\ (call.pc = "post" /\ CurPart(call) = "b" /\ "a" \notin call.changed)
         => ~Solved("a", CurValue(call).s)
    /\ EndedOnPartAAnswer(call) =>
         /\ call.posts = 0
         /\ "log" \notin call.changed
         /\ call.out \in {"raise_part_a_answer"} \cup LocalRefusals
         /\ (call.out # "raise_part_a_answer" =>
               /\ call.idx \in RecordsOf("b")
               /\ RecordVerdict(submitLog[call.idx], call.value.s, "b") = call.out)

\* C6 witness: part b was refused the answer of part a by the AocdError
C6_Witness ==
    /\ EndedOnPartAAnswer(call)
    /\ call.out = "raise_part_a_answer"

\* C7: _submit of "", b"", None, "None" or b"None" raises the non-answer
\* AocdError with no request sent and no file changed.
C7_NonAnswerRefused ==
    (call.op = "submit" /\ call.pc # "idle" /\ call.value \in NonAnswers) =>
      /\ call.pc = "done"
      /\ call.out = "raise_non_answer"
      /\ call.posts = 0
      /\ call.gets = 0
      /\ call.changed = {}

\* C7 witness: _submit(b"None") has raised
C7_Witness ==
    /\ call.pc = "done"
    /\ call.op = "submit"
    /\ call.value = PyBytes(NoneText)
    /\ call.out = "raise_non_answer"

----------------------------------------------------------------------------
(* Properties of the input cache *)

Returned == {"hit", "fetched"}

C9_ReturnsBody ==
    (icall.pc = "done" /\ icall.out = "fetched")
      => /\ icall.gets = 1
         /\ inputFile = File(icall.body)
         /\ icall.data = icall.body

\* C9, amended: on a cache miss answered successfully, input_data has made
\* one GET and leaves exactly the response body in the cache file; it returns
\* the body without its trailing CR/LF characters.
C9_ReturnsStrippedBody ==
    (icall.pc = "done" /\ icall.out = "fetched")
      => /\ icall.gets = 1
         /\ inputFile = File(icall.body)
         /\ icall.data = RStripNewlines(icall.body)

\* C9 witness: a body ending in a newline was fetched, cached whole and
\* returned without the newline
C9_Witness ==
    /\ icall.pc = "done"
    /\ icall.out = "fetched"
    /\ icall.body = <<"7", "\n">>
    /\ inputFile = File(<<"7", "\n">>)
    /\ icall.data = <<"7">>

----------------------------------------------------------------------------
(* Properties of atomic_write_file *)

\* no file, or the whole contents of an atomic_write_file call that has returned
WholeFiles == {NoFile} \cup {File(v) : v \in wrote}

----------------------------------------------------------------------------
(* Failures of the input fetch *)

InputErrors == {"PuzzleLockedError", "AocdError"}

\* C11: an input fetch answered with status 404 raises PuzzleLockedError and
\* one answered with another status >= 400 raises AocdError; either leaves no
\* input file, so the access after a failed one sends its own GET.
C11_InputFetchFailure ==
    /\ (icall.pc = "done" /\ icall.status >= 400)
         => /\ icall.out = (IF icall.status = 404 THEN "PuzzleLockedError"
                            ELSE "AocdError")
            /\ icall.gets = 1
            /\ ~IsFile(inputFile)
    /\ (icall.pc = "done" /\ icall.out \in InputErrors) => icall.status >= 400
    /\ (lastData.out \in InputErrors /\ icall.pc # "idle")
         => /\ icall.gets = 1
            /\ icall.out # "hit"

\* C11 witness: after an access that raised PuzzleLockedError, the next one
\* has fetched again and got the input
C11_Witness ==
    /\ lastData.out = "PuzzleLockedError"
    /\ icall.pc = "done"
    /\ icall.out = "fetched"
    /\ icall.gets = 1

----------------------------------------------------------------------------
(* Answer access *)

\* the getter of answer_a / answer_b has ended
GetEnded(c) == c.op = "get" /\ c.pc = "done"

\* day 25 has no part b: _get_answer("b") needs neither file nor request
NoPartB(c) == day = 25 /\ c.part = "b"

\* C12 as stated: the getter makes no request when the answer file is there
\* and one GET of the puzzle page when it is not; and when it ends with the
\* answer still missing, it raises AttributeError having written no answer file.
C12_UnsolvedWritesNothing ==
    /\ (call.op = "get" /\ call.pc = "page") => ~IsFile(answerFile[call.part])
    /\ (GetEnded(call) /\ call.out = "AttributeError")
         => /\ call.gets = 1
            /\ call.changed = {}

\* C12, amended: the getter makes no request when the answer file is there
\* (it returns the stripped content) and exactly one GET of the puzzle page
\* when it is not.  After the GET it returns the answer the scrape has cached
\* for its part; if the file of its part is still missing it raises
\* AttributeError, that file left absent (the scrape may have written part a's
\* file when part b was asked for); if the GET fails it raises AocdError with
\* nothing written.  Day 25 part b is apart: no file, no request.
C12_AnswerAccess ==
    /\ (call.op = "get" /\ call.pc = "page")
         => /\ ~IsFile(answerFile[call.part])
            /\ ~NoPartB(call)
            /\ call.gets = 1
    /\ (GetEnded(call) /\ call.gets = 0)
         => /\ call.out = "answer"
            /\ call.changed = {}
            /\ \/ NoPartB(call)
               \/ /\ IsFile(answerFile[call.part])
                  /\ call.result = Strip(ReadText(answerFile[call.part]))
    /\ (GetEnded(call) /\ call.gets # 0)
         => /\ call.gets = 1
            /\ call.out \in {"answer", "AttributeError", "raise_http"}
            /\ call.out = "answer"
                 => /\ call.part \in call.changed
                    /\ IsFile(answerFile[call.part])
                    /\ call.result = Strip(ReadText(answerFile[call.part]))
            /\ call.out = "AttributeError"
                 => /\ ~IsFile(answerFile[call.part])
                    /\ call.changed \subseteq {"a"}
            /\ call.out = "raise_http" => call.changed = {}

\* C12 witness: answer_b was asked for, the page had part a's answer only:
\* part a's file was written and AttributeError raised
C12_Witness ==
    /\ GetEnded(call)
    /\ call.part = "b"
    /\ call.out = "AttributeError"
    /\ call.gets = 1
    /\ call.changed = {"a"}
    /\ ~IsFile(answerFile["b"])

\* C13: on day 25 the getter of answer_b returns the empty text at once: it
\* never raises, sends no request, reads and writes no answer file.  (answers
\* is answer_a then answer_b: its second component is that empty text.)
C13_Day25PartBIsEmpty ==
    (call.op = "get" /\ call.pc # "idle" /\ day = 25 /\ call.part = "b")
      => /\ call.pc = "done"
         /\ call.out = "answer"
         /\ call.result = <<>>
         /\ call.gets = 0
         /\ call.posts = 0
         /\ call.changed = {}

\* C13 witness: on day 25, part a solved, answer_b was read with no file for
\* part b and came back empty
C13_Witness ==
    /\ day = 25
    /\ GetEnded(call)
    /\ call.part = "b"
    /\ call.result = <<>>
    /\ call.out = "answer"
    /\ IsFile(answerFile["a"])
    /\ ~IsFile(answerFile["b"])

----------------------------------------------------------------------------
(* The retry after a rate-limited reply *)

\* the waits the rate-limited replies state, in seconds
StatedWaits ==
    {<<MsgRecentWait, 30>>, <<MsgWait2m5s, 125>>, <<MsgWait0m7s, 7>>}

\* the record the last answered POST has appended
LastRecord == submitLog[Len(submitLog)]

\* C14: a reply "You gave an answer too recently" that states "You have
\* [M m ]S s left to wait" makes _submit sleep 60*M+S seconds, once; it is
\* after that sleep, and only then, that _submit runs again for the same
\* value and part and POSTs them: a call has never made more POSTs than it
\* has slept plus one.  (The run after the sleep goes through the checks of
\* _submit again: it POSTs unless part a's answer or a puzzle page fetched by
\* these checks ends it.)
C14_SleepsStatedWaitThenRetries ==
    /\ [](call.posts <= call.sleeps + 1)
    /\ [](call.pc = "sleep"
            => /\ call.posts = call.sleeps + 1
               /\ submitLog # <<>>
               /\ LastRecord.value = CurValue(call).s
               /\ LastRecord.part = CurPart(call)
               /\ \E w \in StatedWaits :
                    LastRecord.message = w[1] /\ call.wait = w[2])
    /\ [][/\ (call.pc = "post" /\ submitLog' # submitLog)
               => (call'.pc = "sleep"
                     <=> \E w \in StatedWaits : w[1] = submitLog'[Len(submitLog')].message)
          /\ call.pc = "sleep"
               => /\ call'.sleeps = call.sleeps + 1
                  /\ call'.slept = call.slept + call.wait
                  /\ call'.value = call.value /\ call'.part = call.part
                  /\ call'.pc \in {"post", "page", "done"}
                  /\ call'.pc = "post" => call'.posts = call.posts + 1
                  /\ call'.pc = "done" => call'.out = "raise_part_a_answer"
          /\ (call.pc = "page" /\ call.sleeps > 0 /\ answerFile' = answerFile
                /\ call'.out # "raise_http")
               => /\ call'.pc \in {"post", "page"}
                  /\ call'.pc = "post" => call'.posts = call.posts + 1
          /\ (call.pc \notin {"sleep", "done"} /\ call'.pc # "idle")
               => /\ call'.sleeps = call.sleeps
                  /\ call'.slept = call.slept]_vars

\* C14 witness: the third POST of one call goes out, after a sleep of 125
\* seconds and one of 7 seconds
C14_Witness ==
    /\ call.pc = "post"
    /\ call.posts = 3
    /\ call.sleeps = 2
    /\ call.slept = 132
    /\ Len(submitLog) = 2
    /\ submitLog[1].message = MsgWait2m5s
    /\ submitLog[2].message = MsgWait0m7s

----------------------------------------------------------------------------
(* The right answer *)

\* the step handles a POST's reply, status 200, whose message has phrase
Replied(phrase) ==
    /\ call.pc = "post"
    /\ Len(submitLog') = Len(submitLog) + 1
    /\ Contains(submitLog'[Len(submitLog')].message, phrase)

\* C15: the handling of a reply "That's the right answer" leaves in the answer
\* file of the part the submitted value, stripped, and nothing else: the part
\* is solved, its answer in the cache; on day 25 no file is written for part
\* b.  What the call does afterwards (the stars lookup and the submission of
\* "done" on day 25) leaves the answer files as they are.
C15_RightAnswerSaved ==
    [][/\ Replied(RIGHT)
            => IF day = 25 /\ CurPart(call) = "b"
               THEN answerFile' = answerFile
               ELSE /\ answerFile'[CurPart(call)] = File(Strip(CurValue(call).s))
                    /\ CachedAnswer(answerFile', CurPart(call))
                         = <<Strip(CurValue(call).s)>>
                    /\ \A p \in Parts \ {CurPart(call)} :
                         answerFile'[p] = answerFile[p]
       /\ (call.pc = "stats" \/ call.nested) => answerFile' = answerFile]_vars

\* C15 witness: " 1" was submitted for part b and was right: the file holds "1"
C15_Witness ==
    /\ call.pc = "done"
    /\ call.op = "submit"
    /\ call.out = "posted"
    /\ call.part = "b"
    /\ call.value.s = <<" ", "1">>
    /\ submitLog # <<>>
    /\ LastRecord.message = MsgRight
    /\ LastRecord.value = <<" ", "1">>
    /\ answerFile["b"] = File(<<"1">>)

----------------------------------------------------------------------------
(* Day 25 *)

\* what the log says to _submit("done", "b")
DoneRefusal == HistoryCheck(submitLog, 1, DoneText, "b").kind

\* the star lookup and the submission of "done", where they are: a right
\* reply is followed by the lookup of the stars on day 25 for part a, and
\* nowhere else; "done" is submitted for part b of day 25 with level 2 after
\* 49 stars were counted, inside the submission of part a, and nowhere else
StarsLookupPlace ==
    /\ [][Replied(RIGHT)
            => (call'.pc = "stats" <=> (day = 25 /\ CurPart(call) = "a"))]_vars
    /\ [](call.nested
            => /\ day = 25 /\ call.part = "a" /\ call.stars = 49
               /\ CurValue(call) = PyStr(DoneText)
               /\ level(CurPart(call)) = "2")
    /\ [](call.posts <= 2)

----------------------------------------------------------------------------
(* The scrape of the puzzle page *)

\* the step handles the 200 response to the GET of the puzzle page, and the
\* page is of kind
Scraped(kind) ==
    /\ call.pc = "page"
    /\ call'.out # "raise_http"
    /\ call'.page.status = 200
    /\ call'.page.kind = kind

\* C17: from a page "Both parts of this puzzle are complete!" the scrape
\* caches the first answer for part a and the second for part b (on day 25
\* the one answer, for part a, and nothing for part b); from a page "The first
\* half of this puzzle is complete!" it caches the answer for part a and
\* leaves part b as it is; from another page it caches nothing.
C17_ScrapeMapsAnswersToParts ==
    [][/\ Scraped("both")
            => /\ answerFile'["a"] = File(call'.page.pa)
               /\ answerFile'["b"] = (IF day = 25 THEN answerFile["b"]
                                      ELSE File(call'.page.pb))
       /\ Scraped("first")
            => /\ answerFile'["a"] = File(call'.page.pa)
               /\ answerFile'["b"] = answerFile["b"]
       /\ Scraped("none") => answerFile' = answerFile
       /\ (call.pc = "page" /\ call'.out = "raise_http")
            => answerFile' = answerFile]_vars

\* C17 witness: answer_b was read with nothing cached, the page was complete:
\* both answers are cached, each for its part
C17_Witness ==
    /\ GetEnded(call)
    /\ call.part = "b"
    /\ call.out = "answer"
    /\ call.page.kind = "both"
    /\ call.page.pa = <<"1">>
    /\ call.page.pb = <<"2">>
    /\ answerFile = [a |-> File(<<"1">>), b |-> File(<<"2">>)]
    /\ call.changed = {"a", "b"}

----------------------------------------------------------------------------
(* A failed POST *)

\* C18: a response to the POST with a status other than 200 ends _submit with
\* AocdError "HTTP <status> at <url>", raised to the caller: no other request
\* follows, no sleep, and the log and the answer files are as they were.
C18_PostFailureRaises ==
    /\ [][(call.pc = "post" /\ call'.status # 200)
            => /\ call'.pc = "done"
               /\ call'.out = "raise_http"
               /\ call'.posts = call.posts
               /\ call'.gets = call.gets
               /\ call'.sleeps = call.sleeps
               /\ call'.changed = call.changed
               /\ submitLog' = submitLog
               /\ answerFile' = answerFile]_vars
    /\ []((call.pc \in {"sleep", "stats"} \/ (call.pc = "post" /\ call.status # 0))
            => call.status = 200)

\* C18 witness: the POST was answered 302, a redirect, and _submit has raised
C18_Witness ==
    /\ call.pc = "done"
    /\ call.op = "submit"
    /\ call.status = 302
    /\ call.out = "raise_http"
    /\ call.posts = 1
    /\ call.changed = {}
    /\ submitLog = <<>>

----------------------------------------------------------------------------
(* The submission log *)

\* the requests the client has made
Requests(client) == client.req_count["GET"] + client.req_count["POST"]

\* the oldest timestamp of the window is less than _max_t before now
TooFast == clock - http._history[1] < _max_t

\* C19: every GET and every POST runs the limiter first. The limiter sleeps,
\* for the cooloff it has, exactly when the oldest of the 4 timestamps of its
\* window is less than 3 seconds before now; each such sleep doubles the
\* cooloff, which starts at 0.16 seconds, up to 10 seconds, and nothing else
\* changes the cooloff, so it never decreases; the limiter then puts the
\* request's timestamp into the window in place of the oldest one, and the
\* window holds 4 timestamps at all times.
C19_LimiterBeforeEveryRequest ==
    /\ [](/\ Len(http._history) = HistoryLen
          /\ http._cooloff >= InitialCooloff
          /\ http._cooloff <= MaxCooloff
          /\ Requests(http) = 0 => http._cooloff = InitialCooloff)
    /\ [][/\ http'._cooloff >= http._cooloff
          /\ IF Requests(http') # Requests(http)
             THEN /\ Requests(http') = Requests(http) + 1
                  /\ clock' - clock = (IF TooFast THEN http._cooloff ELSE 0)
                  /\ http'._cooloff
                       = (IF TooFast
                          THEN (IF 2 * http._cooloff < MaxCooloff
                                THEN 2 * http._cooloff
                                ELSE MaxCooloff)
                          ELSE http._cooloff)
                  /\ http'._history
                       = SubSeq(http._history, 2, HistoryLen) \o <<clock>>
             ELSE /\ http'._cooloff = http._cooloff
                  /\ http'._history = http._history]_vars

\* both kinds of request were made, and the last one slept 5.12 seconds and
\* brought the cooloff to its cap
C19_Witness ==
    /\ http.req_count["GET"] > 0
    /\ http.req_count["POST"] > 0
    /\ http._cooloff = MaxCooloff
    /\ clock - http._history[HistoryLen] = 512

\* C20: the handling of a POST's response of status 200 appends one record to
\* the log, of the part, the value and the message, whatever the message; the
\* records before it stay, in their order; and no other step changes the log:
\* neither a failed POST nor a guess refused without a POST.  (The record's
\* fourth field, when, is the time of the POST; time is not part of the state.)
C20_LogAppendsOnePerReply ==
    [][IF call.pc = "post" /\ call'.status = 200
       THEN /\ Len(submitLog') = Len(submitLog) + 1
            /\ SubSeq(submitLog', 1, Len(submitLog)) = submitLog
            /\ \E message \in RetryMessages :
                 submitLog'[Len(submitLog')]
                   = [part |-> CurPart(call), value |-> CurValue(call).s,
                      message |-> message]
       ELSE submitLog' = submitLog]_vars

\* C20 witness: two POSTs were answered, one with an unrecognised message and
\* one with "You don't seem to be solving the right level": two records
C20_Witness ==
    /\ call.pc = "done"
    /\ call.posts = 1
    /\ Len(submitLog) = 2
    /\ submitLog[1] = [part |-> "a", value |-> <<"1">>, message |-> MsgUnknown]
    /\ submitLog[2] = [part |-> "b", value |-> <<"2">>, message |-> MsgLevel]

\* C21: submit called without a level settles it from what is known of part
\* a, looking at the answer file first and at the puzzle page only when there
\* is no file: level 1 when there is no answer file and the page shows no
\* answer, level 2 when the file is there or the page shows the answer; and
\* that level is the one it POSTs.
C21_DefaultLevel ==
    /\ [][(pcall'.guessed /\ pcall.level = PyNone /\ pcall'.level # PyNone)
          => /\ pcall'.level
                  = (IF IsFile(memo.answer["a"]) \/ pcall'.shown >= 1
                     THEN PyInt(2) ELSE PyInt(1))
             /\ pcall'.gets = (IF IsFile(memo.answer["a"]) THEN 0 ELSE 1)]_vars
    /\ [](pcall.guessed /\ pcall.posts > 0
            => pcall.sent = pcall.level /\ pcall.level \in {PyInt(1), PyInt(2)})

\* a call without a level has POSTed for level 2: part a's answer was on the
\* page
C21_Witness ==
    /\ pcall.guessed
    /\ pcall.posts = 1
    /\ pcall.gets = 1
    /\ pcall.shown = 1
    /\ pcall.sent = PyInt(2)

\* the runner calls puzzle._submit in this step
RunSubmits == run.pc # "submit" /\ run'.pc = "submit"

\* the answer getter of part has just raised AttributeError
GetterRaised(part) ==
    /\ call.op = "get"
    /\ call.part = part
    /\ call.pc = "done"
    /\ call.out = "AttributeError"

\* C22: run_for calls _submit with a solver's answer only when autosubmit is
\* on, the run is not an example run, the solver has not failed, and the
\* answer getter of that part has raised AttributeError (no answer is known);
\* for part a at once, and for part b only when the day is not 25 and
\* answered_a has found a non-empty answer for part a.  Every _submit of a run
\* is one of these, with the solver's answer and the part of the loop.
C22_RunnerSubmitsWhenUnknown ==
    /\ [][RunSubmits =>
            /\ run.autosubmit /\ ~run.example /\ ~run.error
            /\ ~(day = 25 /\ run.part = "b")
            /\ \/ /\ run.part = "a"
                  /\ run.pc = "get"
                  /\ GetterRaised("a")
                  /\ ~IsFile(answerFile["a"])
               \/ /\ run.part = "b"
                  /\ run.pc = "answered"
                  /\ call.op = "get" /\ call.part = "a" /\ call.out = "answer"
                  /\ call.result # <<>>
                  /\ IsFile(answerFile["a"])
            /\ call'.op = "submit"
            /\ call'.value = PyStr(run.answer[run.part])
            /\ call'.part = run.part]_vars
    /\ [][(run.pc # "answered" /\ run'.pc = "answered")
            => run.pc = "get" /\ run.part = "b" /\ GetterRaised("b")]_vars
    /\ [](call.op = "submit" /\ ~call.nested
            => run.pc = "submit" /\ call.part = run.part)
    /\ []((run.example \/ ~run.autosubmit \/ run.error) => run.submitted = {})
    /\ [](day = 25 => "b" \notin run.submitted)

\* a run has submitted both answers, part b after part a's was right, and the
\* server has answered both
C22_Witness ==
    /\ run.pc = "done"
    /\ run.submitted = {"a", "b"}
    /\ Len(submitLog) = 2
    /\ submitLog[1].part = "a"
    /\ submitLog[1].message = MsgRight
    /\ submitLog[2].part = "b"

\* the mappings of the memo file
DiskMemo ==
    IF IsFile(token2idFile) THEN loads(ReadText(token2idFile)) ELSE EmptyDict

\* the mappings of d are mappings of e
Within(d, e) == \A t \in DOMAIN d : t \in DOMAIN e /\ e[t] = d[t]

\* process p sends the request of get_owner in this step
Asks(p) == procs'[p].lookups # procs[p].lookups

\* the lookup of process p succeeds in this step
Resolves(p) == procs[p].pc = "lookup" /\ procs'[p].out = "id"

\* C23 as stated: a process makes the owner lookup at most once for a token,
\* and never for a token that is in the memo file; a lookup leaves in the file
\* every mapping the file held before, with the new one; a later User.id for
\* the token returns the same id.
C23_OneLookupKeepsAll ==
    /\ [](\A p \in Procs, t \in Tokens : procs[p].lookups[t] <= 1)
    /\ [][\A p \in Procs :
            /\ Asks(p) => procs'[p].token \notin DOMAIN DiskMemo
            /\ Resolves(p) => Within(DiskMemo, DiskMemo')]_vars

\* C23, amended: the memo is per process. A process loads the file at its
\* first User.id and only adds to its memo afterwards; it makes the lookup
\* exactly when the token is not in its own memo, so a lookup that has
\* succeeded is never repeated, and one that raised DeadTokenError is. A
\* lookup that succeeds writes the memo of the process to the file: the new
\* mapping and every mapping the process had loaded or looked up. Nothing
\* else writes the file. User.id returns the id of the memo, the same for a
\* token as long as the process lives.
C23_MemoPerProcess ==
    /\ [][\A p \in Procs :
            /\ (procs[p].pc = "idle" /\ procs'[p].pc # "idle")
                 => /\ procs'[p].asked
                          = (procs'[p].token \notin DOMAIN procs'[p]._token2id)
                    /\ procs'[p].asked = Asks(p)
                    /\ ~procs[p].loaded => procs'[p]._token2id = DiskMemo
            /\ Asks(p) => procs[p].pc = "idle"
            /\ procs[p].loaded
                 => /\ procs'[p].loaded
                    /\ Within(procs[p]._token2id, procs'[p]._token2id)
            /\ Resolves(p)
                 => /\ procs[p].token \notin DOMAIN procs[p]._token2id
                    /\ procs'[p]._token2id[procs[p].token] = procs'[p].result
                    /\ DiskMemo' = procs'[p]._token2id]_vars
    /\ [][token2idFile' # token2idFile => \E p \in Procs : Resolves(p)]_vars
    /\ [](\A p \in Procs :
            (procs[p].pc = "done" /\ procs[p].out = "id")
              => /\ procs[p].result = procs[p]._token2id[procs[p].token]
                 /\ procs[p].result = procs[p].first[procs[p].token])

\* process 1 has loaded t1 from the file, has looked t2 up once, and now has
\* the id of t2 from its memo, without a request; the file holds both
C23_Witness ==
    /\ procs[1].pc = "done"
    /\ procs[1].out = "id"
    /\ procs[1].token = "t2"
    /\ ~procs[1].asked
    /\ procs[1].lookups = [t \in Tokens |-> IF t = "t2" THEN 1 ELSE 0]
    /\ DOMAIN DiskMemo = {"t1", "t2"}

\* C24: Puzzle.examples always returns. When _get_prose, Page.from_raw or the
\* example parser plugin raises, whatever the exception, a warning is logged
\* and the list returned is empty; when none raises there is no warning.
C24_ExamplesNeverRaises ==
    (call.op = "examples" /\ call.pc = "done")
      => /\ call.out = "examples"
         /\ call.err # "none" => call.warned /\ call.result = <<>>
         /\ call.err = "none" => ~call.warned

\* the plugin has raised an exception that is none of the package's, on
\* prose that was fetched and parsed, and examples has returned the empty list
C24_Witness ==
    /\ call.op = "examples"
    /\ call.pc = "done"
    /\ call.gets = 1
    /\ call.served = "prose0"
    /\ call.err = "IndexError"
    /\ call.warned
    /\ call.result = <<>>

\* the place _get_prose reads, given the files there are
Available(pf) ==
    IF IsFile(pf["prose2"]) THEN "prose2"
    ELSE IF IsFile(pf["other2"]) THEN "other2"
    ELSE IF IsFile(pf["prose1"]) THEN "prose1"
    ELSE IF IsFile(pf["other1"]) THEN "other1"
    ELSE IF IsFile(pf["prose0"]) THEN "prose0"
    ELSE "none"

\* C25: _get_prose, called directly or by examples or title, reads the first
\* there is of the user's prose.2, another user's prose.2, the user's
\* prose.1, another user's prose.1 and the shared prose.0, and makes no
\* request then; it requests the puzzle page only when there is none of the
\* five.  No prose file is ever removed or rewritten, so once a page has been
\* cached no later access makes a request.
C25_ProseCacheFirst ==
    /\ [][(call.pc = "idle" /\ call'.pc # "idle"
             /\ ~(call'.op = "title" /\ titleCache # <<>>))
            => IF Available(proseFiles) # "none"
               THEN /\ call'.pc = "done"
                    /\ call'.gets = 0
                    /\ call'.served = Available(proseFiles)
                    /\ call'.op = "_get_prose"
                         => /\ call'.out = "prose"
                            /\ call'.result = proseFiles[Available(proseFiles)]
               ELSE /\ call'.pc = "page"
                    /\ call'.gets = 1]_vars
    /\ [][call'.gets > call.gets
            => call.pc = "idle" /\ Available(proseFiles) = "none"]_vars
    /\ [][\A place \in ProsePlaces :
            IsFile(proseFiles[place])
              => proseFiles'[place] = proseFiles[place]]_vars

\* _get_prose has read, without a request, the shared prose.0 that an
\* earlier call fetched
C25_Witness ==
    /\ call.op = "_get_prose"
    /\ call.pc = "done"
    /\ call.gets = 0
    /\ call.served = "prose0"
    /\ call.out = "prose"

\* the argument holds a real or a complex number
IsFloatOrComplex(val) == "kind" \in DOMAIN val /\ val.kind \in {"real", "complex"}

\* the argument is a whole number: no imaginary part, an integral real part
IsWhole(val) == val.im2 = 0 /\ val.re2 % 2 = 0

\* C26: _coerce_val returns a str unchanged and the decimal string of an int,
\* both without a warning; a float or complex, of Python or of numpy, that is
\* a whole number comes back as the string of that integer with exactly one
\* warning; a float that is not integral and a complex with an imaginary
\* part come back unchanged without a warning.
C26_CoerceVal ==
    cv.pc = "done" =>
      /\ cv.arg.t = "str" => cv.ret = cv.arg /\ cv.warnings = 0
      /\ cv.arg.t = "int" =>
           cv.ret = PyStr(IntToStr(cv.arg.n)) /\ cv.warnings = 0
      /\ (IsFloatOrComplex(cv.arg) /\ IsWhole(cv.arg)) =>
           cv.ret = PyStr(IntToStr(cv.arg.re2 \div 2)) /\ cv.warnings = 1
      /\ (IsFloatOrComplex(cv.arg) /\ ~IsWhole(cv.arg)) =>
           cv.ret = cv.arg /\ cv.warnings = 0

\* _get_answer finds, in the files af, a non-empty answer for part
KnownIn(af, part) ==
    /\ ~(day = 25 /\ part = "b")
    /\ IsFile(af[part])
    /\ Strip(ReadText(af[part])) # <<>>

\* a step of a plain _submit(value, part), the arguments accepted, that ends
\* where the answer of the part is known: it was cached when _submit looked
\* for it, or the puzzle page fetched by this step has shown it
SubmitStepOnKnown ==
    /\ call.pc \in {"idle", "page", "sleep"}
    /\ call'.pc # "idle"
    /\ call'.op = "submit"
    /\ call'.out \notin {"raise_non_answer", "raise_bad_part"}
    /\ KnownIn(answerFile', CurPart(call'))

\* the part's answer file is there and holds no answer
EmptyIn(af, part) == IsFile(af[part]) /\ Strip(ReadText(af[part])) = <<>>

\* C27 as stated: while a non-empty answer of the part is cached no POST is in
\* flight for it; a _submit that finds the answer known, in the cache or on
\* the page, makes no POST and leaves the log as it is, and it ends with
\* "already solved with same answer", with "already solved with different
\* answer" or with a refusal from the history (it may wait for the puzzle
\* page before); an empty answer file does not stop the POST.
C27_KnownAnswerReported ==
    /\ [](call.pc = "post" => ~KnownIn(answerFile, CurPart(call)))
    /\ [][SubmitStepOnKnown
            => /\ call'.posts = call.posts
               /\ submitLog' = submitLog
               /\ call'.pc \in {"done", "page"}
               /\ call'.pc = "done"
                    => call'.out \in {"solved_same", "solved_different"}
                                       \cup LocalRefusals]_vars
    /\ [][(call.pc = "idle" /\ call'.op = "submit" /\ submitLog = <<>>
             /\ EmptyIn(answerFile, call'.part) /\ call'.part = "a")
            => call'.pc = "post" /\ call'.gets = 0]_vars

\* C27, amended: as stated, but the _submit that finds the answer known may
\* also end, still without a POST and with the log as it is, by raising
\* AocdError: for a guess for part b that is part a's answer, or when the
\* page request for part a's answer fails; the one page it may wait for is
\* that of part a's answer.
C27_NoPostOnKnownAnswer ==
    /\ [](call.pc = "post" => ~KnownIn(answerFile, CurPart(call)))
    /\ [][SubmitStepOnKnown
            => /\ call'.posts = call.posts
               /\ submitLog' = submitLog
               /\ call'.pc \in {"done", "page"}
               /\ call'.pc = "page"
                    => /\ call'.ret = "partb"
                       /\ CurPart(call') = "b"
                       /\ ~IsFile(answerFile'["a"])
               /\ call'.pc = "done"
                    => \/ call'.out \in {"solved_same", "solved_different"}
                                          \cup LocalRefusals
                       \/ /\ call'.out = "raise_part_a_answer"
                          /\ CurPart(call') = "b"
                          /\ KnownIn(answerFile', "a")
                          /\ Strip(ReadText(answerFile'["a"])) = CurValue(call').s
                       \/ /\ call'.out = "raise_http"
                          /\ call.pc = "page"
                          /\ call.ret = "partb"]_vars
    /\ [][(call.pc = "idle" /\ call'.op = "submit" /\ submitLog = <<>>
             /\ EmptyIn(answerFile, call'.part) /\ call'.part = "a")
            => call'.pc = "post" /\ call'.gets = 0]_vars

\* C27 witness: a guess that differs from the answer the puzzle page has just
\* shown for its part was reported as "already solved with different answer",
\* with one GET and no POST
C27_Witness ==
    /\ call.pc = "done"
    /\ call.op = "submit"
    /\ call.out = "solved_different"
    /\ call.gets = 1
    /\ call.posts = 0
    /\ call.part \in call.changed
    /\ KnownIn(answerFile, call.part)

\* the step handles a POST's reply of status 200 whose message states one wait
RetryReply ==
    /\ call.pc = "post"
    /\ Len(submitLog') = Len(submitLog) + 1
    /\ \E w \in StatedWaits : submitLog'[Len(submitLog')].message = w[1]

\* the last n records of the log are rate-limited replies, with their wait,
\* to the guess of the call
OwnRetries(n) ==
    /\ n <= Len(submitLog)
    /\ \A i \in (Len(submitLog) - n + 1)..Len(submitLog) :
         /\ submitLog[i].value = CurValue(call).s
         /\ submitLog[i].part = CurPart(call)
         /\ \E w \in StatedWaits : submitLog[i].message = w[1]

HoldsAnswer(af, part) == IsFile(af[part]) /\ Strip(ReadText(af[part])) # <<>>

\* C29: no step of input_data, of an answer getter, of _submit, of the
\* scrape of a puzzle page or of a prose reader removes or empties an answer
\* file that holds an answer: a part that is solved stays solved.
C29_SolvedStaysSolved ==
    [][\A p \in Parts :
         HoldsAnswer(answerFile, p) => HoldsAnswer(answerFile', p)]_vars

\* C29 witness: a prose reader has fetched the puzzle page, whose scrape has
\* replaced the cached answer of part a by another; both parts are solved
C29_Witness ==
    /\ call.pc = "done"
    /\ call.op \in ProseOps
    /\ call.gets = 1
    /\ "a" \in call.overwrote
    /\ \A p \in Parts : HoldsAnswer(answerFile, p)

\* what ends _submit in its loop over the log
HistoryEnds == LocalRefusals \cup {"ValueError"}

\* C30: the loop of _submit over the log ends the call only at a record of
\* the part the guess is for: a guess for a part that has no record in the
\* log gets past the loop whatever the log holds for the other part, and a
\* guess that is refused is refused by a record of its own part.
C30_HistoryPerPart ==
    /\ (call.pc = "done" /\ call.op = "submit"
          /\ (call.out \in HistoryEnds \/ call.inner \in HistoryEnds))
         => call.idx \in RecordsOf(CurPart(call))
    /\ (call.op = "submit" /\ call.pc # "idle" /\ call.posts = 0
          /\ call.out \notin {"raise_non_answer", "raise_bad_part"}
          /\ RecordsOf(call.part) = {})
         => call.out \notin HistoryEnds

\* C30 witness: a guess for part b is POSTed while the log holds the same
\* value as too high for part a
C30_Witness ==
    /\ call.pc = "post"
    /\ call.op = "submit"
    /\ call.part = "b"
    /\ call.posts = 1
    /\ submitLog # <<>>
    /\ submitLog[1].part = "a"
    /\ submitLog[1].value = call.value.s
    /\ submitLog[1].message = MsgHigh
====
